---------------------------- MODULE Spec2Model ----------------------------
(***************************************************************************)
(* Model of the automancy ability converter: text analysis                 *)
(* (parser/text-analyzer.ts, parser/pattern-matcher.ts), base synthesis    *)
(* (automation/rule-engine.ts, effect-generator.ts, flag-generator.ts) and *)
(* the Phase 2 enhancement orchestrator (phase2-converter.ts) with its     *)
(* passes.                                                                 *)
(*                                                                         *)
(* An ability text is modelled as the set of clauses it is made of.  The   *)
(* concrete text is the clauses of the set joined by one space, in the     *)
(* order of ClauseOrder:                                                   *)
(*   react   "As a reaction,"                                              *)
(*   rech    "Bear Hug (Recharge 5-6)."                                    *)
(*   mwak    "Melee Weapon Attack: +5 to hit, reach 5 ft., one target.     *)
(*            Hit: 8 (1d8 + 4) slashing damage."                           *)
(*   rsak    "Ranged Spell Attack: +7 to hit."                             *)
(*   dmgS    "The target takes 2d6 fire damage."                           *)
(*   save    "The target must succeed on a DC 15 Dexterity saving throw."  *)
(*   prone   "On a failure the target is prone."                           *)
(*   grap    "The target is grappled (escape DC 15)."                      *)
(*   restr   "Until this grapple ends, the target is restrained."          *)
(*   ongo    "The target takes 5 (1d10) bludgeoning damage at the start of *)
(*            each of their turns."                                        *)
(*   dazed   "The target is dazed (save ends at end of turn)."             *)
(*   adv     "The owlbear has advantage on attack rolls."                  *)
(*   resist  "The owlbear has resistance to fire damage."                  *)
(*   immune  "The owlbear is immune to cold damage."                       *)
(*   leap    "If the owlbear leaps at least 20 feet toward a target and    *)
(*            then hits them with a claw attack, the target must make a    *)
(*            Strength saving throw or be knocked prone."                  *)
(*   hitrun  "After it attacks, it can move up to half its speed without   *)
(*            provoking opportunity attacks."                              *)
(*   flyby   "The creature flies past and attacks, and doesn't provoke     *)
(*            opportunity attacks."                                        *)
(*   charge  "The boar charges 20 feet in a straight line toward a target  *)
(*            and rams it for an extra 2d6 damage."                        *)
(* The scenario texts also draw on these clauses; rech46 and the five      *)
(* sentences after it, see to ends, make up the Bear Hug text of            *)
(* test-phase2-owlbear.ts, bolt and hulk are texts of their own:           *)
(*   rech46  "Bear Hug (Recharge 4-6)."                                    *)
(*   see     "The owlbear attempts to grab and crush a creature they can   *)
(*            see within 5 feet of them."                                  *)
(*   saveM   "The target must make a DC 15 Dexterity saving throw."        *)
(*   fail    "On a failed save, the target takes 22 (4d10) bludgeoning     *)
(*            damage and is grappled (escape DC 15)."                      *)
(*   succ    "On a successful save, the target takes half as much damage   *)
(*            and is not grappled."                                        *)
(*   hold    "Until this grapple ends, the target is restrained and takes  *)
(*            5 (1d10) bludgeoning damage at the start of each of their    *)
(*            turns."                                                      *)
(*   ends    "The grapple ends when the owlbear uses Bear Hug on another   *)
(*            target or makes a Claw attack against another target."       *)
(*   bolt    "Lightning Bolt: DC 15 Dex save, 60-foot line. 28 (8d6)       *)
(*            lightning damage, half on save."                             *)
(*   hulk    "Hulking Rush. When the owlbear takes damage, they can move   *)
(*            up to half their speed without provoking opportunity         *)
(*            attacks."                                                    *)
(* The texts given to the text analyzer and the pattern matcher on their    *)
(* own also draw on these clauses (TextOrder gives their place in a text): *)
(*   pad43   "The owlbear is a large, ferocious predator."                 *)
(*   pad44   "The owlbear is a large, ferocious carnivore."                *)
(*   bonus   "As a bonus action, the owlbear roars loudly."                *)
(*   act     "The owlbear uses its action to roar."                        *)
(*   heal    "The owlbear regains 2d8 healing damage."                     *)
(*   dup     "The target takes 1d10 cold damage."                          *)
(*   ongoF   "Hit: 5 (1d10) fire damage."                                  *)
(*   conf    "The target is confused."                                     *)
(*   bleed   "The target is bleeding."                                     *)
(*   dis     "The target has disadvantage on attack rolls."                *)
(* The texts given to the recharge pass on its own draw on rech, mwak,     *)
(* save and on these clauses, in this order after rech and rech46:         *)
(*   rech6   "Fire Breath (Recharge 6)."                                   *)
(*   lim     "Frightful Presence (3/Day)."                                 *)
(*   limS    "Second Wind (1/Short Rest)."                                 *)
(*   cond    "This ability recharges when the owlbear is reduced to half   *)
(*            its hit points."                                             *)
(* The texts given to the ongoing-effects pass on its own draw on ongo,     *)
(* save and on these clauses, in this order after ongo:                    *)
(*   ongoU   "The target takes 3 (1d6) fire damage at the start of each of *)
(*            its turns until unconscious."                                *)
(*   ongoG   "The target takes 5 (1d10) bludgeoning damage at the end of   *)
(*            its turns until this grapple ends."                          *)
(*   regen   "The troll regains 10 (3d6) hit points at the start of its    *)
(*            turns unless it is at full hit points."                      *)
(*   rsave   "The target repeats this save at the end of their turns."     *)
(* Every regular expression of the source is modelled by the set of        *)
(* clauses (or clause combinations) whose text it matches.                 *)
(***************************************************************************)
EXTENDS Integers, Sequences, FiniteSets, TLC

VARIABLES
    pc,          \* position inside Phase2Converter.convertAbility
    malformed,   \* TRUE when the argument is not a string (null)
    text,        \* the ability text: the set of clauses it contains
    seed,        \* state of Math.random when the call starts
    rng,         \* number of identifiers drawn from Math.random so far
    parsed,      \* abilityDescription.parsed (ParsedAbility) or Null
    effectIds,   \* RuleEngine.generateEffectIds result
    baseResult,  \* the baseResult local of convertAbility
    systems,     \* the locals of applyPhase2Enhancement, one per pass
    enhanced,    \* the enhancedItem local (integrateAllSystems result) or Null
    shared,      \* parts of the base item that enhancedItem holds by reference
    result,      \* the EnhancedConversionResult returned, or Null
    cxIn, cxOut, \* input and output of TextAnalyzer.assessComplexity
    mSources, mPos, mResult, \* sources, loop index and result of deepMergeFlags
    pmPatterns,  \* PatternMatcher.patterns: the registry with its matchers
    pmText,      \* text argument of the last PatternMatcher call
    pmCall,      \* the last PatternMatcher call: method, name, throwing matches
    pmOut,       \* what the last PatternMatcher call returned
    taText,      \* text argument of TextAnalyzer.analyzeText
    taOut,       \* the ParsedAbility analyzeText returned, or Null
    rcText,      \* raw text of the ability given to generateRechargeSystem
    rcOut,       \* the RechargeSystemData it returned, or Null
    ogText,      \* raw text of the ability given to generateOngoingSystem
    ogOut,       \* the OngoingSystemData it returned, or Null
    ogTarget,    \* the actor a generated ongoing script runs on
    ogRun,       \* the last run of a generated ongoing script, or Null
    clock,       \* the system clock: what new Date() reads
    firstResult, \* what an earlier convertAbility call on the text returned
    rxUsed,      \* per actor, the flag automancy.reactionUsedThisRound
    rxRound,     \* game.combat.round
    rxRuns,      \* the runs of a generated reaction trigger script
    rxValid,     \* what validateReactionUse returned, when the last step called it
    rxQueue,     \* the setting automancy.reactionQueue
    rxQueueOut,  \* how processQueue ended, when the last step called it
    rxLoops,     \* the reset loops over the combatants that are under way
    rrItem,      \* system data of the converted item in the game, or Null
    rrLast,      \* the last run of a generated recharge script to end, or Null
    rrRuns,      \* the runs of the recharge roll script that are under way
    mvText,      \* raw text of the ability given to applyMovementAttackIntegration
    mvItem,      \* the item given to it, which it writes to
    mvOut        \* the item it returned, or Null

vars == <<pc, malformed, text, seed, rng, parsed, effectIds, baseResult,
          systems, enhanced, shared, result, cxIn, cxOut, mSources, mPos,
          mResult, pmPatterns, pmText, pmCall, pmOut, taText, taOut,
          rcText, rcOut, ogText, ogOut, ogTarget, ogRun, clock, firstResult,
          rxUsed, rxRound, rxRuns, rxValid, rxQueue, rxQueueOut, rxLoops,
          rrItem, rrLast, rrRuns, mvText, mvItem, mvOut>>

pipeVars == <<pc, malformed, text, seed, rng, parsed, effectIds, baseResult,
              systems, enhanced, shared, result>>
cxVars == <<cxIn, cxOut>>
mergeVars == <<mSources, mPos, mResult>>
pmVars == <<pmPatterns, pmText, pmCall, pmOut>>
taVars == <<taText, taOut>>
rcVars == <<rcText, rcOut>>
ogVars == <<ogText, ogOut, ogTarget, ogRun>>
callVars == <<clock, firstResult>>
rxVars == <<rxUsed, rxRound, rxRuns, rxValid, rxQueue, rxQueueOut, rxLoops>>
rrVars == <<rrItem, rrLast, rrRuns>>
mvVars == <<mvText, mvItem, mvOut>>
scriptVars == <<ogVars, callVars, rxVars, rrVars, mvVars>>

Null == [null |-> TRUE]

-----------------------------------------------------------------------------
(* Bounds *)

MaxClauses == 3    \* an input text holds at most this many clauses
MaxCount == 2      \* list lengths drawn for assessComplexity inputs
MaxSources == 2    \* number of flag bundles drawn for deepMergeFlags
MaxThrows == 1     \* matches of one call on which an extractor throws
MaxRuns == 2       \* runs of a reaction trigger script
MaxRounds == 2     \* rounds of a combat
MaxQueue == 2      \* entries of the reaction queue
MaxResets == 1     \* calls of resetForNewRound under way at a time
MaxRolls == 2      \* runs of a recharge roll script under way at a time
MaxClock == 2      \* the clock moves on at most up to this reading

-----------------------------------------------------------------------------
(* Clauses and the patterns they match *)

ClauseOrder ==
    << "react", "rech", "mwak", "rsak", "dmgS", "save", "prone", "grap",
       "restr", "ongo", "dazed", "adv", "resist", "immune", "leap",
       "hitrun", "flyby", "charge" >>

Clauses == { ClauseOrder[i] : i \in DOMAIN ClauseOrder }

Texts == { t \in SUBSET Clauses : Cardinality(t) <= MaxClauses }

\* The place of every clause in a text; ClauseOrder is its restriction to
\* the clauses of the conversion inputs.
TextOrder ==
    << "react", "pad43", "pad44", "rech", "rech46", "rech6", "lim", "limS",
       "cond", "see", "saveM", "fail", "succ", "hold", "ends", "mwak",
       "bonus", "act", "rsak", "dmgS", "heal", "dup", "save", "prone",
       "grap", "restr", "ongo", "ongoU", "ongoG", "regen", "rsave",
       "ongoF", "dazed", "conf", "bleed", "adv", "dis", "resist", "immune",
       "leap", "hitrun", "flyby", "charge", "bolt", "hulk" >>

AllClauses == { TextOrder[i] : i \in DOMAIN TextOrder }

\* The clauses of t in text order.
InOrder(t) == SelectSeq(TextOrder, LAMBDA c : c \in t)

\* Number of characters of a clause
ClauseLen(c) ==
    CASE c = "react" -> 14 [] c = "pad43" -> 43 [] c = "pad44" -> 44
      [] c = "rech" -> 24 [] c = "rech46" -> 24 [] c = "rech6" -> 25
      [] c = "lim" -> 27 [] c = "limS" -> 27 [] c = "cond" -> 74
      [] c = "see" -> 85 [] c = "saveM" -> 52 [] c = "fail" -> 95
      [] c = "succ" -> 79 [] c = "hold" -> 124 [] c = "ends" -> 112
      [] c = "mwak" -> 90 [] c = "bonus" -> 44 [] c = "act" -> 36
      [] c = "rsak" -> 31 [] c = "dmgS" -> 33 [] c = "heal" -> 39
      [] c = "dup" -> 34 [] c = "save" -> 58 [] c = "prone" -> 33
      [] c = "grap" -> 38 [] c = "restr" -> 50 [] c = "ongo" -> 81
      [] c = "ongoU" -> 89 [] c = "ongoG" -> 93 [] c = "regen" -> 96
      [] c = "rsave" -> 55 [] c = "ongoF" -> 26 [] c = "dazed" -> 47
      [] c = "conf" -> 23 [] c = "bleed" -> 23 [] c = "adv" -> 42
      [] c = "dis" -> 44 [] c = "resist" -> 42 [] c = "immune" -> 37
      [] c = "leap" -> 158 [] c = "hitrun" -> 89 [] c = "flyby" -> 77
      [] c = "charge" -> 96 [] c = "bolt" -> 86 [] c = "hulk" -> 120

\* Index in the text t of the first character of clause c (the clauses are
\* joined by one space).
RECURSIVE startAfter(_, _)
startAfter(cs, c) ==
    IF cs = << >> \/ Head(cs) = c THEN 0
    ELSE ClauseLen(Head(cs)) + 1 + startAfter(Tail(cs), c)

clauseStart(t, c) == startAfter(InOrder(t), c)

RECURSIVE Flatten(_)
Flatten(ss) == IF ss = << >> THEN << >> ELSE Head(ss) \o Flatten(Tail(ss))

\* PatternMatcher.initializePatterns: the facts each pattern extracts from a
\* clause (match order inside a clause is text order).
PatternFacts(name, c) ==
    CASE name = "weapon_attack" /\ c = "mwak" -> << [type |-> "mwak", bonus |-> 5] >>
      [] name = "spell_attack" /\ c = "rsak" -> << [type |-> "rsak", bonus |-> 7] >>
      [] name = "damage_with_average" /\ c = "mwak" ->
             << [formula |-> "1d8+4", type |-> "slashing"] >>
      [] name = "damage_with_average" /\ c \in { "ongo", "ongoG", "hold" } ->
             << [formula |-> "1d10", type |-> "bludgeoning"] >>
      [] name = "damage_with_average" /\ c = "fail" ->
             << [formula |-> "4d10", type |-> "bludgeoning"] >>
      [] name = "damage_with_average" /\ c = "ongoU" ->
             << [formula |-> "1d6", type |-> "fire"] >>
      [] name = "damage_simple" /\ c = "dmgS" ->
             << [formula |-> "2d6", type |-> "fire"] >>
      [] name = "save_dc" /\ c \in { "save", "saveM", "bolt" } ->
             << [ability |-> "dex", dc |-> 15] >>
      [] name = "damage_with_average" /\ c = "bolt" ->
             << [formula |-> "8d6", type |-> "lightning"] >>
      [] name = "area_line" /\ c = "bolt" -> << [type |-> "line", value |-> 60] >>
      [] name = "activation_reaction" /\ c = "react" ->
             << [type |-> "reaction", cost |-> 1] >>
      [] name = "advantage" /\ c = "adv" ->
             << [type |-> "advantage", target |-> "all"] >>
      [] name = "damage_resistance" /\ c = "resist" ->
             << [type |-> "resistance", damageTypes |-> <<"fire">>] >>
      [] name = "damage_immunity" /\ c = "immune" ->
             << [type |-> "immunity", damageTypes |-> <<"cold">>] >>
      [] name = "recharge" /\ c = "rech" ->
             << [type |-> "recharge", min |-> 5, max |-> 6] >>
      [] name = "recharge" /\ c = "rech46" ->
             << [type |-> "recharge", min |-> 4, max |-> 6] >>
      [] name = "recharge" /\ c = "rech6" ->
             << [type |-> "recharge", min |-> 6, max |-> 6] >>
      [] name = "uses_per_day" /\ c = "lim" ->
             << [type |-> "per_day", amount |-> 3] >>
      [] name = "uses_per_rest" /\ c = "limS" ->
             << [type |-> "per_rest", amount |-> 1, restType |-> "short"] >>
      [] name = "activation_bonus" /\ c = "bonus" ->
             << [type |-> "bonus", cost |-> 1] >>
      [] name = "activation_action" /\ c \in { "bonus", "act" } ->
             << [type |-> "action", cost |-> 1] >>
      [] name = "damage_simple" /\ c = "heal" ->
             << [formula |-> "2d8", type |-> "healing"] >>
      [] name = "damage_simple" /\ c = "dup" ->
             << [formula |-> "1d10", type |-> "cold"] >>
      [] name = "damage_with_average" /\ c = "ongoF" ->
             << [formula |-> "1d10", type |-> "fire"] >>
      [] name = "advantage" /\ c = "dis" ->
             << [type |-> "advantage", target |-> "all"] >>
      [] name = "disadvantage" /\ c = "dis" ->
             << [type |-> "disadvantage", target |-> "all"] >>
      [] OTHER -> << >>

\* Offset inside clause c of the match of the pattern
MatchOffset(name, c) ==
    CASE name = "activation_reaction" /\ c = "react" -> 5
      [] name = "recharge" /\ c \in { "rech", "rech46" } -> 10
      [] name = "recharge" /\ c = "rech6" -> 13
      [] name = "uses_per_day" /\ c = "lim" -> 20
      [] name = "uses_per_rest" /\ c = "limS" -> 13
      [] name = "save_dc" /\ c = "saveM" -> 23
      [] name = "damage_with_average" /\ c = "fail" -> 35
      [] name = "damage_with_average" /\ c = "hold" -> 60
      [] name = "weapon_attack" /\ c = "mwak" -> 0
      [] name = "damage_with_average" /\ c = "mwak" -> 62
      [] name = "activation_action" /\ c = "bonus" -> 11
      [] name = "activation_bonus" /\ c = "bonus" -> 5
      [] name = "activation_action" /\ c = "act" -> 21
      [] name = "spell_attack" /\ c = "rsak" -> 0
      [] name = "damage_simple" /\ c = "dmgS" -> 17
      [] name = "damage_simple" /\ c = "heal" -> 20
      [] name = "damage_simple" /\ c = "dup" -> 17
      [] name = "save_dc" /\ c = "save" -> 29
      [] name = "save_dc" /\ c = "bolt" -> 16
      [] name = "area_line" /\ c = "bolt" -> 32
      [] name = "damage_with_average" /\ c = "bolt" -> 46
      [] name = "damage_with_average" /\ c \in { "ongo", "ongoU", "ongoG" } -> 17
      [] name = "damage_with_average" /\ c = "ongoF" -> 5
      [] name = "advantage" /\ c = "adv" -> 16
      [] name = "advantage" /\ c = "dis" -> 18
      [] name = "disadvantage" /\ c = "dis" -> 15
      [] name = "damage_resistance" /\ c = "resist" -> 16
      [] name = "damage_immunity" /\ c = "immune" -> 15

\* Number of characters of the match of the pattern inside clause c
MatchLen(name, c) ==
    CASE name = "activation_reaction" /\ c = "react" -> 8
      [] name = "recharge" /\ c \in { "rech", "rech46" } -> 12
      [] name = "recharge" /\ c = "rech6" -> 10
      [] name = "uses_per_day" /\ c = "lim" -> 5
      [] name = "uses_per_rest" /\ c = "limS" -> 12
      [] name = "save_dc" /\ c = "saveM" -> 28
      [] name = "damage_with_average" /\ c = "fail" -> 28
      [] name = "damage_with_average" /\ c = "hold" -> 27
      [] name = "damage_with_average" /\ c = "ongoU" -> 19
      [] name = "weapon_attack" /\ c = "mwak" -> 30
      [] name = "damage_with_average" /\ c = "mwak" -> 27
      [] name = "activation_action" /\ c = "bonus" -> 6
      [] name = "activation_bonus" /\ c = "bonus" -> 12
      [] name = "activation_action" /\ c = "act" -> 6
      [] name = "spell_attack" /\ c = "rsak" -> 30
      [] name = "damage_simple" /\ c = "dmgS" -> 15
      [] name = "damage_simple" /\ c = "heal" -> 18
      [] name = "damage_simple" /\ c = "dup" -> 16
      [] name = "save_dc" /\ c = "save" -> 28
      [] name = "save_dc" /\ c = "bolt" -> 14
      [] name = "area_line" /\ c = "bolt" -> 12
      [] name = "damage_with_average" /\ c = "bolt" -> 25
      [] name = "damage_with_average" /\ c \in { "ongo", "ongoG" } -> 27
      [] name = "damage_with_average" /\ c = "ongoF" -> 20
      [] name = "advantage" /\ c = "adv" -> 25
      [] name = "advantage" /\ c = "dis" -> 25
      [] name = "disadvantage" /\ c = "dis" -> 28
      [] name = "damage_resistance" /\ c = "resist" -> 25
      [] name = "damage_immunity" /\ c = "immune" -> 21

\* Patterns whose regex carries the g flag (all matches are returned).
GlobalPatterns == { "damage_with_average", "damage_simple", "save_dc" }

\* PatternMatcher.extractPatterns, one pattern: the matches in text order, cut
\* to the first match when the regex is not global.
patternsGet(t, name) ==
    LET all == Flatten([i \in 1..Len(InOrder(t)) |-> PatternFacts(name, InOrder(t)[i])])
    IN IF name \in GlobalPatterns \/ all = << >> THEN all ELSE << Head(all) >>

patternsHas(t, name) == patternsGet(t, name) # << >>

\* The index field extractPatterns adds to the first match of the pattern
patternsIndex(t, name) ==
    LET cs == SelectSeq(InOrder(t), LAMBDA c : PatternFacts(name, c) # << >>)
    IN clauseStart(t, Head(cs)) + MatchOffset(name, Head(cs))


-----------------------------------------------------------------------------
(* PatternMatcher: the registry, the matchers and their lastIndex           *)

\* The names of the registered patterns, in registration order
PatternNames ==
    << "weapon_attack", "spell_attack", "damage_with_average", "damage_simple",
       "save_dc", "duration_concentration", "duration_rounds",
       "duration_instant", "range_distance", "range_touch", "range_self",
       "area_radius", "area_cone", "area_line", "activation_action",
       "activation_bonus", "activation_reaction", "advantage", "disadvantage",
       "damage_resistance", "damage_immunity", "uses_per_day", "uses_per_rest",
       "recharge" >>

\* The priority each pattern is registered with
Priority(name) ==
    CASE name \in { "weapon_attack", "spell_attack" } -> 100
      [] name \in { "save_dc", "range_touch", "range_self" } -> 95
      [] name \in { "damage_with_average", "duration_instant",
                    "range_distance" } -> 90
      [] name \in { "damage_simple", "duration_rounds", "area_radius",
                    "area_cone", "area_line", "activation_bonus",
                    "activation_reaction" } -> 85
      [] name \in { "duration_concentration", "activation_action" } -> 80
      [] name \in { "advantage", "disadvantage" } -> 75
      [] name \in { "damage_resistance", "damage_immunity" } -> 70
      [] name = "recharge" -> 65
      [] name \in { "uses_per_day", "uses_per_rest" } -> 60

\* PatternMatcher.initializePatterns: the patterns map after construction,
\* in insertion order; regex is the matcher, with its g flag and lastIndex.
initializePatterns ==
    [ i \in DOMAIN PatternNames |->
        [ name |-> PatternNames[i],
          priority |-> Priority(PatternNames[i]),
          regex |-> [ global |-> PatternNames[i] \in GlobalPatterns,
                      lastIndex |-> 0 ] ] ]

\* Array.prototype.sort with (a, b) => b.priority - a.priority: a stable
\* sort, highest priority first.
RECURSIVE insertByPriority(_, _)
insertByPriority(sorted, p) ==
    IF sorted = << >> THEN << p >>
    ELSE IF Head(sorted).priority >= p.priority
         THEN << Head(sorted) >> \o insertByPriority(Tail(sorted), p)
         ELSE << p >> \o sorted

\* Faulty variant of sortedPatterns: the patterns are taken in registration
\* order.
registrationOrder(pats) == pats

RECURSIVE sortedPatterns(_)
sortedPatterns(pats) ==
    IF pats = << >> THEN << >>
    ELSE insertByPriority(sortedPatterns(SubSeq(pats, 1, Len(pats) - 1)),
                          pats[Len(pats)])

\* All the places where the regex of the pattern matches in the text, in
\* text order: index and length of the match and what the extractor makes
\* of it.
regexMatches(name, t) ==
    LET cs == SelectSeq(InOrder(t), LAMBDA c : PatternFacts(name, c) # << >>)
    IN [ i \in DOMAIN cs |->
            [ index |-> clauseStart(t, cs[i]) + MatchOffset(name, cs[i]),
              length |-> MatchLen(name, cs[i]),
              extracted |-> PatternFacts(name, cs[i])[1] ] ]

\* RegExp.prototype.exec: a global regex searches from lastIndex and leaves
\* lastIndex after the match, or at 0 when nothing matches; any other regex
\* searches from 0 and leaves lastIndex alone.
regexExec(name, regex, t) ==
    LET from == IF regex.global THEN regex.lastIndex ELSE 0
        found == SelectSeq(regexMatches(name, t), LAMBDA m : m.index >= from)
    IN IF found = << >>
       THEN [ match |-> Null,
              lastIndex |-> IF regex.global THEN 0 ELSE regex.lastIndex ]
       ELSE [ match |-> Head(found),
              lastIndex |-> IF regex.global
                            THEN Head(found).index + Head(found).length
                            ELSE regex.lastIndex ]

\* Faulty variant of resetLastIndex: the matcher keeps the position the
\* previous call left.
keepLastIndex(regex) == regex

\* pattern.regex.lastIndex = 0
resetLastIndex(regex) == [ regex EXCEPT !.lastIndex = 0 ]

\* Faulty variant of matchLoop: an extractor that throws ends the scan of
\* the pattern and its matches are dropped.
RECURSIVE matchLoopAbort(_, _, _, _, _)
matchLoopAbort(name, regex, t, throwing, matches) ==
    LET r == regexExec(name, regex, t)
    IN IF r.match = Null
       THEN [ matches |-> matches, lastIndex |-> r.lastIndex ]
       ELSE IF << name, r.match.index >> \in throwing
       THEN [ matches |-> << >>, lastIndex |-> r.lastIndex ]
       ELSE IF ~regex.global
       THEN [ matches |-> Append(matches, r.match), lastIndex |-> r.lastIndex ]
       ELSE matchLoopAbort(name, [ regex EXCEPT !.lastIndex = r.lastIndex ], t,
                           throwing, Append(matches, r.match))

\* PatternMatcher.extractPatterns, the while loop over the matches of one
\* pattern: the extractor runs on each match and its result is pushed with
\* the match position, unless it throws (throwing holds the matches, as
\* <<name, index>>, on which it does); a regex without the g flag is run
\* once.
RECURSIVE matchLoop(_, _, _, _, _)
matchLoop(name, regex, t, throwing, matches) ==
    LET r == regexExec(name, regex, t)
    IN IF r.match = Null
       THEN [ matches |-> matches, lastIndex |-> r.lastIndex ]
       ELSE LET pushed == IF << name, r.match.index >> \in throwing
                          THEN matches
                          ELSE Append(matches, r.match)
            IN IF ~regex.global
               THEN [ matches |-> pushed, lastIndex |-> r.lastIndex ]
               ELSE matchLoop(name, [ regex EXCEPT !.lastIndex = r.lastIndex ],
                              t, throwing, pushed)

\* PatternMatcher.extractPatterns: results is the Map returned, as the
\* sequence of its entries in insertion order; patterns is the registry
\* after the call.
extractPatterns(pats, t, throwing) ==
    LET sorted == sortedPatterns(pats)
        scan == [ i \in DOMAIN sorted |->
                    matchLoop(sorted[i].name, resetLastIndex(sorted[i].regex),
                              t, throwing, << >>) ]
        found == SelectSeq([ i \in DOMAIN sorted |-> i ],
                           LAMBDA i : Len(scan[i].matches) > 0)
        After(name) == LET i == CHOOSE j \in DOMAIN sorted : sorted[j].name = name
                       IN scan[i].lastIndex
    IN [ results |-> [ k \in DOMAIN found |->
                         [ name |-> sorted[found[k]].name,
                           matches |-> scan[found[k]].matches ] ],
         patterns |-> [ i \in DOMAIN pats |->
                          [ pats[i] EXCEPT !.regex.lastIndex = After(pats[i].name) ] ] ]

\* PatternMatcher.getFirstMatch (Null stands for null)
getFirstMatch(pats, t, patternName) ==
    IF \A i \in DOMAIN pats : pats[i].name # patternName
    THEN [ result |-> Null, patterns |-> pats ]
    ELSE LET i == CHOOSE j \in DOMAIN pats : pats[j].name = patternName
             r == regexExec(patternName, resetLastIndex(pats[i].regex), t)
         IN [ result |-> IF r.match # Null THEN r.match.extracted ELSE Null,
              patterns |-> [ pats EXCEPT ![i].regex.lastIndex = r.lastIndex ] ]

\* PatternMatcher.hasPattern
hasPattern(pats, t, patternName) ==
    IF \A i \in DOMAIN pats : pats[i].name # patternName
    THEN [ result |-> FALSE, patterns |-> pats ]
    ELSE LET i == CHOOSE j \in DOMAIN pats : pats[j].name = patternName
             r == regexExec(patternName, resetLastIndex(pats[i].regex), t)
         IN [ result |-> r.match # Null,
              patterns |-> [ pats EXCEPT ![i].regex.lastIndex = r.lastIndex ] ]

-----------------------------------------------------------------------------
(* TextAnalyzer *)

\* TextAnalyzer.determineAbilityType
determineAbilityType(t) ==
    IF patternsHas(t, "weapon_attack") THEN "weapon_attack"
    ELSE IF patternsHas(t, "spell_attack") THEN "spell_attack"
    ELSE IF patternsHas(t, "save_dc") THEN "save_ability"
    ELSE IF LET damage == IF patternsHas(t, "damage_with_average")
                          THEN patternsGet(t, "damage_with_average")
                          ELSE patternsGet(t, "damage_simple")
            IN \E i \in DOMAIN damage : damage[i].type = "healing"
         THEN "healing"
    ELSE IF patternsHas(t, "activation_reaction") THEN "reaction"
    ELSE IF /\ ~patternsHas(t, "activation_action")
            /\ ~patternsHas(t, "activation_bonus")
            /\ ~patternsHas(t, "activation_reaction") THEN "passive"
    ELSE "utility"

\* TextAnalyzer.extractAttackType ("none" stands for undefined)
extractAttackType(t) ==
    IF patternsHas(t, "weapon_attack") THEN patternsGet(t, "weapon_attack")[1].type
    ELSE IF patternsHas(t, "spell_attack") THEN patternsGet(t, "spell_attack")[1].type
    ELSE "none"

\* Faulty variant of extractAttackBonus: the bonus is not extracted.
extractAttackBonusNone(t) == -1

\* TextAnalyzer.extractAttackBonus (-1 stands for undefined)
extractAttackBonus(t) ==
    IF patternsHas(t, "weapon_attack") THEN patternsGet(t, "weapon_attack")[1].bonus
    ELSE IF patternsHas(t, "spell_attack") THEN patternsGet(t, "spell_attack")[1].bonus
    ELSE -1

\* Faulty variant of extractActivation: a bonus-action phrase counts
\* wherever it stands in the text.
extractActivationAnywhere(t) ==
    IF patternsHas(t, "activation_reaction")
    THEN [type |-> "reaction", cost |-> patternsGet(t, "activation_reaction")[1].cost]
    ELSE IF patternsHas(t, "activation_bonus")
    THEN [type |-> "bonus", cost |-> patternsGet(t, "activation_bonus")[1].cost]
    ELSE IF patternsHas(t, "activation_action")
    THEN [type |-> "action", cost |-> patternsGet(t, "activation_action")[1].cost]
    ELSE [type |-> "action", cost |-> 1]

\* TextAnalyzer.extractActivation
extractActivation(t) ==
    IF patternsHas(t, "activation_reaction")
    THEN [type |-> "reaction", cost |-> patternsGet(t, "activation_reaction")[1].cost]
    ELSE IF /\ patternsHas(t, "activation_bonus")
            /\ patternsIndex(t, "activation_bonus") < 50
    THEN [type |-> "bonus", cost |-> patternsGet(t, "activation_bonus")[1].cost]
    ELSE IF patternsHas(t, "activation_action")
    THEN [type |-> "action", cost |-> patternsGet(t, "activation_action")[1].cost]
    ELSE [type |-> "action", cost |-> 1]

\* TextAnalyzer.extractDamage
RECURSIVE addSimple(_, _)
addSimple(damage, simple) ==
    IF simple = << >> THEN damage
    ELSE LET d == Head(simple)
         IN IF \E i \in DOMAIN damage : damage[i].formula = d.formula
            THEN addSimple(damage, Tail(simple))
            ELSE addSimple(Append(damage, d), Tail(simple))

extractDamage(t) ==
    addSimple(patternsGet(t, "damage_with_average"), patternsGet(t, "damage_simple"))

\* TextAnalyzer.extractSaves
extractSaves(t) ==
    LET s == patternsGet(t, "save_dc")
    IN [i \in DOMAIN s |-> [ability |-> s[i].ability, dc |-> s[i].dc, scaling |-> "flat"]]

\* TextAnalyzer.extractEffects: resistances, then immunities (amount 0);
\* amount -1 stands for an absent amount.
extractEffects(t) ==
    LET r == patternsGet(t, "damage_resistance")
        m == patternsGet(t, "damage_immunity")
    IN [i \in DOMAIN r |-> [type |-> "damage_resistance",
                            damageTypes |-> r[i].damageTypes, amount |-> -1]]
       \o [i \in DOMAIN m |-> [type |-> "damage_resistance",
                               damageTypes |-> m[i].damageTypes, amount |-> 0]]

\* The closed condition vocabulary of extractConditions, in scan order.
allConditions ==
    << "blinded", "charmed", "deafened", "exhaustion", "frightened",
       "grappled", "incapacitated", "invisible", "paralyzed", "petrified",
       "poisoned", "prone", "restrained", "stunned", "unconscious",
       "dazed", "bleeding", "weakened", "slowed" >>

\* /(?:be|is|becomes?|are)\s+(?:<[^>]+>)?\s*<condName>/i
condPattern(t, condName) ==
    \/ condName = "prone" /\ "prone" \in t
    \/ condName = "grappled" /\ t \cap { "grap", "fail" } # {}
    \/ condName = "restrained" /\ t \cap { "restr", "hold" } # {}
    \/ condName = "dazed" /\ "dazed" \in t
    \/ condName = "bleeding" /\ "bleed" \in t

\* The place of a clause in a text
Place(c) == CHOOSE i \in DOMAIN TextOrder : TextOrder[i] = c

\* /save\s*ends|saving throw.*ends|ends?.*saving throw/i : "save ends" is
\* in dazed; "saving throw" is in saveM, save and leap, "ends" in hold,
\* ends, restr and ongoG, and "end" also in rsave; the two words match when
\* they stand in the text in the order of one of the alternatives.
saveEndsText(t) ==
    LET savingThrow == t \cap { "saveM", "save", "leap" }
        endsWord == t \cap { "hold", "ends", "restr", "ongoG" }
        endWord == endsWord \cup (t \cap { "rsave" })
    IN \/ "dazed" \in t
       \/ \E a \in savingThrow, b \in endsWord : Place(a) < Place(b)
       \/ \E b \in endWord, a \in savingThrow : Place(b) < Place(a)

\* /(?:at\s+)?(?:the\s+)?end\s+of\s+(...)?\s*turn/i matches 'at the end of
\* its turns' (ongoG), 'at the end of their turns' (rsave) and 'at end of
\* turn' (dazed).
endOfTurnText(t) == t \cap { "ongoG", "rsave", "dazed" } # {}

\* Faulty variant of extractConditions: the word after "is" is taken as a
\* condition whether the vocabulary holds it or not.
extractConditionsAnyWord(t) ==
    LET words == SelectSeq(allConditions \o << "confused" >>,
                           LAMBDA c : condPattern(t, c) \/ (c = "confused" /\ "conf" \in t))
    IN [i \in DOMAIN words |->
            [type |-> words[i], name |-> words[i],
             saveEnds |-> saveEndsText(t),
             saveEndsTiming |-> IF endOfTurnText(t) THEN "end_of_turn"
                                ELSE "start_of_turn"]]

\* TextAnalyzer.extractConditions
extractConditions(t) ==
    LET vocab == SelectSeq(allConditions, LAMBDA c : condPattern(t, c))
        adv == patternsGet(t, "advantage")
        dis == patternsGet(t, "disadvantage")
    IN [i \in DOMAIN vocab |->
            [type |-> vocab[i], name |-> vocab[i],
             saveEnds |-> saveEndsText(t),
             saveEndsTiming |-> IF endOfTurnText(t) THEN "end_of_turn"
                                ELSE "start_of_turn"]]
       \o [i \in DOMAIN adv |->
            [type |-> "advantage", name |-> "Advantage",
             saveEnds |-> FALSE, saveEndsTiming |-> "none"]]
       \o [i \in DOMAIN dis |->
            [type |-> "disadvantage", name |-> "Disadvantage",
             saveEnds |-> FALSE, saveEndsTiming |-> "none"]]

\* TextAnalyzer.extractResources
extractResources(t) ==
    IF patternsHas(t, "uses_per_day") THEN [consumesResource |-> TRUE, type |-> "per_day"]
    ELSE IF patternsHas(t, "uses_per_rest") THEN [consumesResource |-> TRUE, type |-> "per_rest"]
    ELSE IF patternsHas(t, "recharge") THEN [consumesResource |-> TRUE, type |-> "recharge"]
    ELSE [consumesResource |-> FALSE, type |-> "none"]

Min(a, b) == IF a < b THEN a ELSE b
Max(a, b) == IF a > b THEN a ELSE b

\* Faulty variant of assessComplexity: the reaction rule is left out.
assessComplexityNoReaction(ability) ==
    LET s0 == 1
        s1 == IF Len(ability.conditions) > 0 THEN s0 + 1 ELSE s0
        s2 == IF Len(ability.damage) > 1 THEN s1 + 1 ELSE s1
        s4 == IF Len(ability.effects) > 1 THEN s2 + 1 ELSE s2
        s5 == IF Len(ability.saves) > 0 /\ Len(ability.effects) > 0 THEN s4 + 1 ELSE s4
        s6 == IF ability.resources.consumesResource THEN s5 + 1 ELSE s5
    IN Min(s6, 4)

\* TextAnalyzer.assessComplexity
assessComplexity(ability) ==
    LET s0 == 1
        s1 == IF Len(ability.conditions) > 0 THEN s0 + 1 ELSE s0
        s2 == IF Len(ability.damage) > 1 THEN s1 + 1 ELSE s1
        s3 == IF ability.activation.type = "reaction" THEN 4 ELSE s2
        s4 == IF Len(ability.effects) > 1 THEN s3 + 1 ELSE s3
        s5 == IF Len(ability.saves) > 0 /\ Len(ability.effects) > 0 THEN s4 + 1 ELSE s4
        s6 == IF ability.resources.consumesResource THEN s5 + 1 ELSE s5
    IN Min(s6, 4)

\* TextAnalyzer.extractTarget.  No clause matches the target-number
\* expression or holds 'self' or 'yourself'; of the area patterns, taken in
\* the order radius, cone, line, only area_line matches (in bolt).  The
\* target takes the value of the area match and not its type.
extractTarget(t) ==
    IF patternsHas(t, "area_radius")
    THEN [value |-> patternsGet(t, "area_radius")[1].value, type |-> "space",
          width |-> patternsGet(t, "area_radius")[1].value, units |-> "ft"]
    ELSE IF patternsHas(t, "area_cone")
    THEN [value |-> patternsGet(t, "area_cone")[1].value, type |-> "space",
          width |-> patternsGet(t, "area_cone")[1].value, units |-> "ft"]
    ELSE IF patternsHas(t, "area_line")
    THEN [value |-> patternsGet(t, "area_line")[1].value, type |-> "space",
          width |-> patternsGet(t, "area_line")[1].value, units |-> "ft"]
    ELSE [value |-> 1, type |-> "creature", units |-> "any"]

\* TextAnalyzer.analyzeText (name, duration and range do not depend on any
\* clause).
analyzeText(t) ==
    LET p == [ raw |-> t,
               type |-> determineAbilityType(t),
               attackType |-> extractAttackType(t),
               attackBonus |-> extractAttackBonus(t),
               activation |-> extractActivation(t),
               target |-> extractTarget(t),
               damage |-> extractDamage(t),
               saves |-> extractSaves(t),
               effects |-> extractEffects(t),
               conditions |-> extractConditions(t),
               resources |-> extractResources(t),
               complexity |-> 1 ]
    IN [p EXCEPT !.complexity = assessComplexity(p)]

-----------------------------------------------------------------------------
(* Flag bundles (Record<string, any>)                                      *)
(*                                                                         *)
(* A flag bundle is a function from key paths (non-empty sequences of      *)
(* keys) to values, closed under prefixes.  The value OBJ marks a path     *)
(* holding an object (empty when no longer path extends it); every other   *)
(* value is a scalar leaf (strings, numbers and booleans are written as    *)
(* strings; an array is a leaf too, as deepMergeFlags treats it).          *)

OBJ == "{}"

EmptyFlags == << >>

\* The bundle holding the given <<path, value>> pairs.
Flags(pairs) ==
    [p \in { pr[1] : pr \in pairs } |-> (CHOOSE pr \in pairs : pr[1] = p)[2]]

\* Object.keys(t)
ObjectKeys(t) == { p[1] : p \in DOMAIN t }

\* t[k] is an object (typeof 'object', not an array)
IsObject(t, k) == <<k>> \in DOMAIN t /\ t[<<k>>] = OBJ

\* The object t[k], as a bundle of its own.
Sub(t, k) ==
    [q \in { Tail(p) : p \in { r \in DOMAIN t : Len(r) > 1 /\ r[1] = k } }
        |-> t[<<k>> \o q]]

\* result[k] = v, where v is the scalar v or, when v = OBJ, the object sub.
SetKey(t, k, v, sub) ==
    LET keep == { p \in DOMAIN t : p[1] # k }
        new == {<<k>>} \cup (IF v = OBJ THEN { <<k>> \o q : q \in DOMAIN sub } ELSE {})
    IN [p \in keep \cup new |->
            IF p \in keep THEN t[p]
            ELSE IF p = <<k>> THEN v
            ELSE sub[Tail(p)]]

\* {k: sub}
Wrap(k, sub) == SetKey(EmptyFlags, k, OBJ, sub)

\* Phase2Converter.deepMergeFlags: mergeKeys is the inner loop over
\* Object.keys(source), mergeSource one iteration of the outer loop.
RECURSIVE deepMergeFlags(_)
RECURSIVE mergeKeys(_, _, _)
mergeKeys(res, source, keys) ==
    IF keys = {} THEN res
    ELSE LET key == CHOOSE k \in keys : TRUE
             sourceIsObj == IsObject(source, key)
             sourceEmpty == sourceIsObj /\ Sub(source, key) = EmptyFlags
             next ==
                IF IsObject(res, key) /\ sourceIsObj
                THEN IF sourceEmpty THEN res
                     ELSE SetKey(res, key, OBJ,
                                 deepMergeFlags(<< Sub(res, key), Sub(source, key) >>))
                ELSE IF sourceEmpty THEN res
                     ELSE SetKey(res, key, source[<<key>>], Sub(source, key))
         IN mergeKeys(next, source, keys \ {key})

mergeSource(res, source) == mergeKeys(res, source, ObjectKeys(source))

deepMergeFlags(flagSources) ==
    IF flagSources = << >> THEN EmptyFlags
    ELSE mergeSource(deepMergeFlags(SubSeq(flagSources, 1, Len(flagSources) - 1)),
                     flagSources[Len(flagSources)])

-----------------------------------------------------------------------------
(* Identifiers *)

Seeds == { 1, 2 }

\* generateFoundryId: the k-th identifier Math.random yields from state s.
\* Two draws of one call are taken to differ (16 random characters).
generateFoundryId(s, k) == << s, k >>

-----------------------------------------------------------------------------
(* EffectGenerator *)

\* EffectGenerator.mapConditionToStatus ("none" stands for null)
mapConditionToStatus(conditionName) ==
    IF \E i \in DOMAIN allConditions : allConditions[i] = conditionName
    THEN conditionName ELSE "none"

\* EffectGenerator.createConditionEffect: the effect, or Null
createConditionEffect(ability, effectId, conditionIndex) ==
    LET condition == ability.conditions[conditionIndex]
        status == mapConditionToStatus(condition.type)
    IN IF condition.type = "advantage" \/ condition.type = "disadvantage" THEN Null
       ELSE IF status = "none" THEN Null
       ELSE [ _id |-> effectId,
              name |-> condition.name,
              statuses |-> << status >>,
              transfer |-> FALSE ]

\* EffectGenerator.createActiveEffect: every parsed effect is a
\* damage_resistance with damage types, so generateChanges is never empty.
createActiveEffect(effect, ability, id) ==
    [ _id |-> id,
      name |-> "Effect",
      statuses |-> << >>,
      transfer |-> (ability.type = "passive") ]

\* EffectGenerator.generateActiveEffects; identifiers of the parsed effects
\* are drawn starting after the n0-th draw.
generateActiveEffects(ability, ids, s, n0) ==
    LET fromEffects ==
            [i \in DOMAIN ability.effects |->
                createActiveEffect(ability.effects[i], ability,
                                   generateFoundryId(s, n0 + i))]
        fromConditions ==
            Flatten([idx \in DOMAIN ability.conditions |->
                LET e == createConditionEffect(ability, ids[idx], idx)
                IN IF e = Null THEN << >> ELSE << e >>])
        effects == fromEffects \o fromConditions
    IN IF ability.type = "passive"
       THEN [i \in DOMAIN effects |-> [effects[i] EXCEPT !.transfer = TRUE]]
       ELSE effects

-----------------------------------------------------------------------------
(* FlagGenerator *)

\* FlagGenerator.generateMidiQOLFlags
generateMidiQOLFlags(ability) ==
    LET hasAttack == ability.type \in {"spell_attack", "weapon_attack"}
        hasSave == Len(ability.saves) > 0
        hasCondition == Len(ability.conditions) > 0
        conds == { ability.conditions[i].type : i \in DOMAIN ability.conditions }
        amounts == { <<ability.effects[i].damageTypes[1], ability.effects[i].amount>> :
                        i \in DOMAIN ability.effects }
        pairs ==
            (IF "advantage" \in conds THEN { << <<"advantage.attack.all">>, "true" >> } ELSE {})
            \cup (IF "disadvantage" \in conds
                  THEN { << <<"disadvantage.attack.all">>, "true" >> } ELSE {})
            \cup { << <<"DI." \o a[1]>>, "true" >> : a \in { x \in amounts : x[2] = 0 } }
            \cup { << <<"DR." \o a[1]>>, "0.5" >> : a \in { x \in amounts : x[2] = -1 } }
            \cup (IF ability.type = "save_ability" /\ hasSave
                  THEN { << <<"saveDC">>, ToString(ability.saves[1].dc) >> } ELSE {})
            \cup (IF Len(ability.effects) > 0 \/ hasCondition
                  THEN { << <<"effectActivation">>, "true" >> } ELSE {})
            \cup (IF hasAttack /\ hasSave
                  THEN { << <<"forceWorkflow">>, "true" >> } ELSE {})
            \cup (IF hasAttack /\ hasSave /\ hasCondition /\ Len(ability.damage) > 0
                  THEN { << <<"noDamSave">>, "true" >>,
                         << <<"saveDamage">>, "nodam" >>,
                         << <<"otherSaveDamage">>, "nodam" >>,
                         << <<"rollOtherDamage">>, "none" >> }
                  ELSE {})
    IN Wrap("midi-qol", Flags(pairs))

-----------------------------------------------------------------------------
(* RuleEngine *)

\* RuleEngine.generateEffectIds: one identifier per parsed condition
generateEffectIds(ability, s, n0) ==
    [i \in DOMAIN ability.conditions |-> generateFoundryId(s, n0 + i)]

\* RuleEngine.determineItemType
determineItemType(abilityType) ==
    IF abilityType = "weapon_attack" THEN "weapon" ELSE "feat"

\* formula.match(/(\d+)d(\d+)(?:\s*\+\s*(\d+))?/) for the formulas of the clauses
parseFormula(formula) ==
    CASE formula = "1d8+4" -> [number |-> 1, denomination |-> 8, bonus |-> "4"]
      [] formula = "1d10" -> [number |-> 1, denomination |-> 10, bonus |-> ""]
      [] formula = "2d6" -> [number |-> 2, denomination |-> 6, bonus |-> ""]
      [] formula = "8d6" -> [number |-> 8, denomination |-> 6, bonus |-> ""]
      [] formula = "4d10" -> [number |-> 4, denomination |-> 10, bonus |-> ""]
      [] formula = "1d6" -> [number |-> 1, denomination |-> 6, bonus |-> ""]
      [] formula = "2d8" -> [number |-> 2, denomination |-> 8, bonus |-> ""]
      [] formula = "3d6" -> [number |-> 3, denomination |-> 6, bonus |-> ""]

\* RuleEngine.generateActivityDamageParts
generateActivityDamageParts(ability) ==
    [i \in DOMAIN ability.damage |->
        LET m == parseFormula(ability.damage[i].formula)
        IN [ number |-> m.number, denomination |-> m.denomination,
             bonus |-> m.bonus, types |-> << ability.damage[i].type >>,
             customEnabled |-> FALSE ]]

\* RuleEngine.generateAttackActivity (onSave "n/a": an attack has no onSave)
generateAttackActivity(ability, ids) ==
    [ _id |-> "dnd5eactivity000",
      type |-> "attack",
      attack |-> [ bonus |-> IF ability.attackBonus > 0
                             THEN ToString(ability.attackBonus) ELSE "",
                   flat |-> ability.attackBonus > 0 ],
      effects |-> [i \in DOMAIN ids |-> [_id |-> ids[i]]],
      onSave |-> "n/a",
      parts |-> generateActivityDamageParts(ability) ]

\* Faulty variant of generateSaveActivity: the condition-only case is
\* ignored, the save activity always carries the damage parts.
generateSaveActivityAlwaysDamage(ability, isConditionOnly, ids) ==
    [ _id |-> "dnd5eactivity100",
      type |-> "save",
      effects |-> [i \in DOMAIN ids |-> [_id |-> ids[i]]],
      onSave |-> "half",
      parts |-> generateActivityDamageParts(ability) ]

\* RuleEngine.generateSaveActivity; number and denomination 0 stand for null
generateSaveActivity(ability, isConditionOnly, ids) ==
    [ _id |-> "dnd5eactivity100",
      type |-> "save",
      effects |-> [i \in DOMAIN ids |-> [_id |-> ids[i]]],
      onSave |-> IF isConditionOnly THEN "none" ELSE "half",
      parts |-> IF isConditionOnly
                THEN << [ number |-> 0, denomination |-> 0, bonus |-> "",
                          types |-> IF Len(ability.damage) > 0
                                    THEN << ability.damage[1].type >> ELSE << >>,
                          customEnabled |-> FALSE ] >>
                ELSE generateActivityDamageParts(ability) ]

\* Faulty variant of generateActivities: the save activity is left out when
\* the ability has an attack.
generateActivitiesOne(ability, ids) ==
    LET hasAttack == ability.type \in {"spell_attack", "weapon_attack"}
        hasSave == Len(ability.saves) > 0
        keys == IF hasAttack THEN {"dnd5eactivity000"}
                ELSE IF hasSave THEN {"dnd5eactivity100"} ELSE {}
    IN [k \in keys |->
            IF k = "dnd5eactivity000" THEN generateAttackActivity(ability, ids)
            ELSE generateSaveActivity(ability, FALSE, ids)]

\* RuleEngine.generateActivities: a function from activity keys to activities
generateActivities(ability, ids) ==
    LET hasAttack == ability.type \in {"spell_attack", "weapon_attack"}
        hasSave == Len(ability.saves) > 0
        hasCondition == Len(ability.conditions) > 0
        keys == (IF hasAttack THEN {"dnd5eactivity000"} ELSE {})
                \cup (IF hasSave THEN {"dnd5eactivity100"} ELSE {})
    IN [k \in keys |->
            IF k = "dnd5eactivity000" THEN generateAttackActivity(ability, ids)
            ELSE generateSaveActivity(ability, hasAttack /\ hasCondition, ids)]

\* RuleEngine.generateItemData / generateSystemData (of the system data only
\* the activities depend on the ability; the constant fields are left out)
generateItemData(ability, ids, itemId) ==
    [ _id |-> itemId,
      type |-> determineItemType(ability.type),
      system |-> [ activities |-> generateActivities(ability, ids) ],
      effects |-> << >>,
      flags |-> EmptyFlags ]

\* RuleEngine.generateMacros
generateMacros(ability) ==
    IF ability.complexity >= 2 THEN << "basic" >> ELSE << >>

\* RuleEngine.generateAutomation; draws identifiers n0+1.. from Math.random:
\* the condition identifiers, the parsed effects' identifiers, the item's.
generateAutomation(ability, s, n0) ==
    LET ids == generateEffectIds(ability, s, n0)
        n1 == n0 + Len(ids)
        effects == generateActiveEffects(ability, ids, s, n1)
        n2 == n1 + Len(ability.effects)
        item == generateItemData(ability, ids, generateFoundryId(s, n2 + 1))
    IN [ item |-> item,
         effects |-> effects,
         macros |-> generateMacros(ability),
         flags |-> generateMidiQOLFlags(ability),
         complexity |-> ability.complexity ]

\* The number of identifiers generateAutomation draws
automationDraws(ability) == Len(ability.conditions) + Len(ability.effects) + 1

-----------------------------------------------------------------------------
(* ComplexAbilityParser *)

\* A boolean as a flag value
Bool(b) == IF b THEN "true" ELSE "false"

\* The sequence <<x>> if b holds, else the empty sequence.
When(b, x) == IF b THEN << x >> ELSE << >>

\* ComplexAbilityParser.parseRequirements: the requirement types.  The
\* visibility expression matches the 'can see' of see; the damage-trigger
\* expression /(?:when|if) (?:the owlbear|you) takes? damage/i matches hulk.
parseRequirements(t) ==
    When("leap" \in t, "movement")
    \o When("see" \in t, "visibility")
    \o When("hulk" \in t, "trigger")
    \o When(t \cap { "rech", "rech46", "rech6" } # {}, "recharge")

\* Faulty variant of parseLinkedEffects: no chain is recognised.
parseLinkedEffectsNone(t) == << >>

\* ComplexAbilityParser.parseLinkedEffects: the chains.  The Bear Hug
\* chain needs 'grappled' (grap, fail, succ), 'restrained' (restr, hold) and
\* 'damage at the start' (ongo, ongoU, hold); the expression
\* /hits? them with.*then.*saving throw/ matches no text (in leap, 'then'
\* comes before 'hits them with').
parseLinkedEffects(t) ==
    When(/\ t \cap { "grap", "fail", "succ" } # {}
         /\ t \cap { "restr", "hold" } # {}
         /\ t \cap { "ongo", "ongoU", "hold" } # {},
         [ trigger |-> "save_failure",
           sequence |-> << [ step |-> 1, action |-> "apply_condition",
                             condition |-> "grappled", timing |-> "immediate" ],
                           [ step |-> 2, action |-> "apply_condition",
                             condition |-> "restrained", timing |-> "immediate",
                             linkedTo |-> "grappled" ],
                           [ step |-> 3, action |-> "ongoing_damage",
                             timing |-> "start_of_turn", linkedTo |-> "grappled",
                             endCondition |-> "grapple_ends" ] >> ])

\* ComplexAbilityParser.determineAutomationStrategy.  'then' is in leap
\* only; a lower-case 'until' is in ongoU and ongoG (restr and hold have it
\* with a capital); /recharge \d+/i matches rech, rech46 and rech6; 'at the
\* start of each' is in ongo, ongoU and hold.
determineAutomationStrategy(ability) ==
    LET t == ability.raw
        until == t \cap { "ongoU", "ongoG" } # {}
        multi == "leap" \in t \/ until
        recharge == t \cap { "rech", "rech46", "rech6" } # {}
        ongoing == t \cap { "ongo", "ongoU", "hold" } # {} \/ until
    IN [ primary |-> IF multi THEN "multi_step_workflow" ELSE "workflow_integration",
         hooks |-> (IF multi THEN << "preItemRoll", "postAttackRoll", "postSave",
                                     "preActiveEffects" >> ELSE << >>)
                   \o (IF recharge
                       THEN << "preItemRoll", "postItemRoll" >> ELSE << >>)
                   \o (IF ability.type = "reaction"
                       THEN << "isDamaged", "preAttackRoll" >> ELSE << >>)
                   \o (IF ongoing THEN << "turnStart", "combatStart" >> ELSE << >>),
         macros |-> When(recharge, "recharge_management")
                    \o When(ability.type = "reaction", "reaction_trigger"),
         effects |-> When(ongoing, "persistent_tracking") ]

\* ComplexAbilityParser.assessEnhancedComplexity
assessEnhancedComplexity(enhancedAbility) ==
    LET c0 == enhancedAbility.complexity
        c1 == IF Len(enhancedAbility.requirements) > 0 THEN Max(c0, 2) ELSE c0
        c2 == IF Len(enhancedAbility.linkedEffects) > 0 THEN Max(c1, 3) ELSE c1
        c3 == IF enhancedAbility.type = "reaction" THEN Max(c2, 4) ELSE c2
        c4 == IF enhancedAbility.automation.primary = "multi_step_workflow"
              THEN Max(c3, 3) ELSE c3
    IN c4

\* ComplexAbilityParser.parseComplexAbility
parseComplexAbility(ability) ==
    LET e == [ requirements |-> parseRequirements(ability.raw),
               linkedEffects |-> parseLinkedEffects(ability.raw),
               automation |-> determineAutomationStrategy(ability) ] @@ ability
    IN [e EXCEPT !.complexity = assessEnhancedComplexity(e)]

-----------------------------------------------------------------------------
(* ConditionEngine *)

\* ConditionEngine.analyzeConditionText: which analyses are present.
\* /knocked prone|falls? prone|prone/ matches prone and leap;
\* /grappled.*escape DC (\d+)/ matches grap and fail; 'restrained' is in
\* restr and hold; the ongoing-damage expression (with 'their turns')
\* matches ongo and hold; /\bdazed\b/ matches dazed, whose text holds
\* 'save ends'.
analyzeConditionText(t) ==
    [ prone |-> ("prone" \in t \/ "leap" \in t),
      grapple |-> t \cap { "grap", "fail" } # {},
      restrained |-> t \cap { "restr", "hold" } # {},
      ongoingDamage |-> t \cap { "ongo", "hold" } # {},
      dazed |-> "dazed" \in t,
      dazedSaveEnds |-> "dazed" \in t ]

\* The effects of generateProneEffect, generateGrappleEffects,
\* generateOngoingDamageEffect and generateDazedEffect, by name.
conditionEngineStatuses(name, analysis) ==
    CASE name = "Prone" -> << "prone" >>
      [] name = "Grappled" -> IF analysis.restrained
                              THEN << "grappled", "restrained" >>
                              ELSE << "grappled" >>
      [] name = "Restrained" -> << "restrained" >>
      [] name = "Ongoing Damage" -> << >>
      [] name = "Dazed" -> << "dazed" >>

\* ConditionEngine.generateConditionEffects; every effect draws its own
\* identifier from Math.random, starting after the n0-th draw.
generateConditionEffects(ability, s, n0) ==
    LET a == analyzeConditionText(ability.raw)
        names == When(a.prone, "Prone")
                 \o When(a.grapple, "Grappled")
                 \o When(a.grapple /\ a.restrained, "Restrained")
                 \o When(a.ongoingDamage, "Ongoing Damage")
                 \o When(a.dazed, "Dazed")
    IN [ effects |-> [i \in DOMAIN names |->
                        [ _id |-> generateFoundryId(s, n0 + i),
                          name |-> names[i],
                          statuses |-> conditionEngineStatuses(names[i], a),
                          transfer |-> FALSE ]],
         macros |-> When(a.grapple, "Grapple")
                    \o When(a.ongoingDamage, "OngoingDamage")
                    \o When(a.dazed /\ a.dazedSaveEnds, "DazedSaveEnds"),
         flags |-> Flags(
            (IF a.prone THEN { << <<"applyProneOnFailedSave">>, "true" >> } ELSE {})
            \cup (IF a.grapple THEN { << <<"complexGrappleLogic">>, "true" >> } ELSE {})
            \cup (IF a.dazed THEN { << <<"mcdmDazed">>, "true" >>,
                                    << <<"dazedSaveEnds">>, Bool(a.dazedSaveEnds) >> }
                  ELSE {})) ]

-----------------------------------------------------------------------------
(* ProfessionalFlags *)
(* Strings, arrays and generated code are kept as flag values by name.     *)

\* ProfessionalFlags.generateItemCondition (Null stands for null): the
\* conditions joined by ' && '.  'can see' is in see; the leap-distance
\* expression matches leap; no clause holds 'humanoid', 'bloodied' or 'half
\* hit points' (cond has 'half its hit points').
generateItemCondition(t) ==
    IF "see" \in t /\ "leap" \in t
    THEN [ text |-> "testVisibility && leapDistance >= 20" ]
    ELSE IF "see" \in t THEN [ text |-> "testVisibility" ]
    ELSE IF "leap" \in t THEN [ text |-> "leapDistance >= 20" ]
    ELSE Null

\* ProfessionalFlags.generateMidiQOLProfessionalFlags.  No clause holds
\* 'half damage on save' (bolt has 'half on save'), 'no damage on save' or
\* 'critical', so halfdam, nodam and critical are never set.  'advantage on'
\* is in adv and, inside 'disadvantage on', in dis; for both
\* parseAdvantageCondition finds 'advantage on attack rolls'.
generateMidiQOLProfessionalFlags(ability) ==
    LET t == ability.raw
        hasAttack == ability.type \in {"weapon_attack", "spell_attack"}
    IN Wrap("midi-qol", Flags(
        (IF Len(ability.saves) > 0
         THEN { << <<"saveDC">>, ToString(ability.saves[1].dc) >>,
                << <<"saveScaling">>, ability.saves[1].scaling >> }
         ELSE {})
        \cup (IF hasAttack
              THEN { << <<"rollAttackPerTarget">>,
                        IF ability.target.value > 1 THEN "default" ELSE "never" >> }
              ELSE {})
        \cup (IF "adv" \in t \/ "dis" \in t
              THEN { << <<"grants.advantage.attack.all">>, "always" >> } ELSE {})
        \cup (IF generateItemCondition(t) # Null
              THEN { << <<"itemCondition">>, generateItemCondition(t).text >> }
              ELSE {})
        \cup (IF Len(ability.effects) > 0
              THEN { << <<"ignoreTotalCover">>, "false" >> } ELSE {})
        \cup (IF ability.target.type = "space"
              THEN { << <<"templateRequired">>, "true" >>,
                     << <<"rangeTarget">>, "template" >> }
              ELSE {})
        \cup { << <<"effectActivation">>, Bool(ability.complexity >= 2) >>,
               << <<"selfTarget">>, "false" >>,
               << <<"selfTargetAlways">>, "false" >> }))

\* ProfessionalFlags.shouldHaveAnimation
shouldHaveAnimation(ability) ==
    \/ Len(ability.damage) > 0
    \/ ability.target.type = "space"
    \/ ability.type = "spell_attack"
    \/ ability.complexity >= 3

\* ProfessionalFlags.generateAnimationConfig
generateAnimationConfig(ability) ==
    IF \E i \in DOMAIN ability.damage : ability.damage[i].type = "fire"
    THEN [type |-> "fire", color |-> "#ff4500"]
    ELSE IF \E i \in DOMAIN ability.damage : ability.damage[i].type = "lightning"
    THEN [type |-> "lightning", color |-> "#00ffff"]
    ELSE IF ability.type = "weapon_attack"
    THEN [type |-> "physical", color |-> "#ffffff"]
    ELSE [type |-> "generic", color |-> "#8a2be2"]

\* ProfessionalFlags.generateChrisPremadesFlags
generateChrisPremadesFlags(ability) ==
    Wrap("chris-premades", Flags(
        { << <<"info">>, OBJ >>,
          << <<"info", "name">>, "name" >>,
          << <<"info", "version">>, "2.0.0" >>,
          << <<"info", "mutation">>, OBJ >>,
          << <<"info", "mutation", "self">>, "name" >>,
          << <<"hasAnimation">>, Bool(shouldHaveAnimation(ability)) >> }
        \cup (IF ability.complexity >= 2 THEN { << <<"config">>, "[config]" >> } ELSE {})
        \cup (IF shouldHaveAnimation(ability)
              THEN LET animationConfig == generateAnimationConfig(ability)
                   IN { << <<"animationConfig">>, OBJ >>,
                        << <<"animationConfig", "type">>, animationConfig.type >>,
                        << <<"animationConfig", "color">>, animationConfig.color >> }
              ELSE {})
        \cup (IF ability.complexity >= 3
              THEN { << <<"medkit">>, OBJ >>,
                     << <<"medkit", "enable">>, "true" >>,
                     << <<"medkit", "autoApply">>, "true" >>,
                     << <<"medkit", "itemHint">>, "hint" >> }
              ELSE {})))

\* ProfessionalFlags.generateGambitsPremadesFlags.  'takes damage' is in
\* hulk; no clause holds 'attacked', 'spell cast', 'moves' or 'another
\* creature'; 'opportunity' is in hitrun, flyby and hulk.  The record has no
\* isReaction key.
generateGambitsPremadesFlags(ability) ==
    IF ability.type # "reaction" THEN EmptyFlags
    ELSE Wrap("gambits-premades", Flags(
            { << <<"reaction">>, OBJ >>,
              << <<"reaction", "trigger">>,
                 IF "hulk" \in ability.raw THEN "isDamaged" ELSE "manual" >>,
              << <<"reaction", "enabled">>, "true" >>,
              << <<"reaction", "consumed">>, "false" >>,
              << <<"reactionValidation">>, "validateReaction" >>,
              << <<"priority">>,
                 IF "hulk" \in ability.raw THEN "100"
                 ELSE IF "hitrun" \in ability.raw \/ "flyby" \in ability.raw
                 THEN "50" ELSE "25" >> }))

\* ProfessionalFlags.generateSpecialDuration: 'end of turn' is in dazed,
\* 'unconscious' in ongoU; no clause holds 'until grapple ends' or 'start of
\* turn'.
generateSpecialDuration(t) ==
    When("dazed" \in t, "turnEnd") \o When("ongoU" \in t, "isUnconscious")

\* ProfessionalFlags.determineMacroRepeat: 'at the start' is in ongo, ongoU,
\* hold and regen; no clause holds 'start of each turn', 'end of each turn'
\* or 'ongoing'.
determineProfessionalMacroRepeat(t) ==
    IF t \cap { "ongo", "ongoU", "hold", "regen" } # {} THEN "startEveryTurn"
    ELSE "none"

\* ProfessionalFlags.generateDAEProfessionalFlags
generateDAEProfessionalFlags(ability) ==
    Wrap("dae", Flags(
        { << <<"transfer">>, Bool(ability.type = "passive") >>,
          << <<"stackable">>, IF ability.type = "passive" THEN "multi" ELSE "noneName" >> }
        \cup (IF generateSpecialDuration(ability.raw) # << >>
              THEN { << <<"specialDuration">>,
                        ToString(generateSpecialDuration(ability.raw)) >> }
              ELSE {})
        \cup (IF ability.complexity >= 2
              THEN { << <<"macroRepeat">>,
                        determineProfessionalMacroRepeat(ability.raw) >> }
              ELSE {})))

\* new Date().toISOString(): the text of the clock's reading
toISOString(now) == ToString(now)

\* Faulty variant of generateAutomancyMetadata: the key generated holds the
\* time of generation, as the export of the converter writes it, where the
\* bundle has the constant true.
generateAutomancyMetadataStamped(ability, now) ==
    Wrap("automancy", Flags(
        { << <<"generated">>, toISOString(now) >>,
          << <<"version">>, "2.0.0" >>,
          << <<"phase">>, "2" >>,
          << <<"complexity">>, ToString(ability.complexity) >>,
          << <<"sourceType">>, ability.type >>,
          << <<"enhancedAutomation">>, "true" >>,
          << <<"generatedAt">>, toISOString(now) >>,
          << <<"professionalGrade">>, "true" >>,
          << <<"requiresNoManualWork">>, "true" >> }))

\* ProfessionalFlags.generateAutomancyMetadata; now is what new Date() reads
\* when the bundle is built
generateAutomancyMetadata(ability, now) ==
    Wrap("automancy", Flags(
        { << <<"generated">>, "true" >>,
          << <<"version">>, "2.0.0" >>,
          << <<"phase">>, "2" >>,
          << <<"complexity">>, ToString(ability.complexity) >>,
          << <<"sourceType">>, ability.type >>,
          << <<"enhancedAutomation">>, "true" >>,
          << <<"generatedAt">>, toISOString(now) >>,
          << <<"professionalGrade">>, "true" >>,
          << <<"requiresNoManualWork">>, "true" >> }))

\* ProfessionalFlags.generateAllProfessionalFlags: a spread of five bundles
\* with distinct top-level keys
generateAllProfessionalFlags(ability, now) ==
    generateMidiQOLProfessionalFlags(ability)
    @@ generateChrisPremadesFlags(ability)
    @@ generateGambitsPremadesFlags(ability)
    @@ generateDAEProfessionalFlags(ability)
    @@ generateAutomancyMetadata(ability, now)

-----------------------------------------------------------------------------
(* MacroTemplateSystem: its source is not part of the repository sources;  *)
(* generateMacroIntegration is taken to return a macro list and a flag     *)
(* bundle, either both empty or one templated behavior script.             *)

MacroIntegrations ==
    { [ macros |-> << >>, flags |-> EmptyFlags ],
      [ macros |-> << "Template" >>,
        flags |-> Wrap("midi-qol", Flags({ << <<"onUseMacroName">>, "Template" >> })) ] }

-----------------------------------------------------------------------------
(* RechargeAutomation *)

\* RechargeAutomation.parseRestType, on the lower-cased match text
parseRestType(restText) ==
    IF restText = "(1/short rest)" THEN "short_rest"
    ELSE IF restText = "(3/day)" THEN "day"
    ELSE "long_rest"

\* RechargeAutomation.convertRestTypeToFoundry
convertRestTypeToFoundry(restType) ==
    CASE restType = "short_rest" -> "sr"
      [] restType = "long_rest" -> "lr"
      [] restType = "day" -> "day"
      [] OTHER -> "lr"

\* RechargeAutomation.analyzeRechargeRequirements (Null stands for null).
\* /\(Recharge (\d+)(?:-(\d+))?\)/i matches rech, rech46 and rech6, the
\* first of them in the text being rech, then rech46; /\((\d+)\/(?:Day|Rest|Short Rest|Long
\* Rest)\)/i matches lim and limS; /recharges? (?:when|if) (.+?)(?:\.|,|$)/i
\* matches cond; no other clause matches any of the three.
analyzeRechargeRequirements(t) ==
    IF "rech" \in t
    THEN [ type |-> "standard", minRoll |-> 5, maxRoll |-> 6,
           timing |-> "start_of_turn", automatic |-> TRUE ]
    ELSE IF "rech46" \in t
    THEN [ type |-> "standard", minRoll |-> 4, maxRoll |-> 6,
           timing |-> "start_of_turn", automatic |-> TRUE ]
    ELSE IF "rech6" \in t
    THEN [ type |-> "standard", minRoll |-> 6, maxRoll |-> 6,
           timing |-> "start_of_turn", automatic |-> TRUE ]
    ELSE IF "lim" \in t
    THEN [ type |-> "limited_use", maxUses |-> 3,
           restoreOn |-> parseRestType("(3/day)"),
           timing |-> "rest", automatic |-> FALSE ]
    ELSE IF "limS" \in t
    THEN [ type |-> "limited_use", maxUses |-> 1,
           restoreOn |-> parseRestType("(1/short rest)"),
           timing |-> "rest", automatic |-> FALSE ]
    ELSE IF "cond" \in t
    THEN [ type |-> "conditional",
           condition |-> "the owlbear is reduced to half its hit points",
           timing |-> "conditional", automatic |-> FALSE ]
    ELSE Null

\* Faulty variant of generateItemUpdates: no update for any recharge type.
generateItemUpdatesNone(rechargeData) == << >>

\* RechargeAutomation.generateItemUpdates: an object with at most one key,
\* a dotted string ('system.recharge' or 'system.uses'); << >> is {}.
generateItemUpdates(rechargeData) ==
    IF rechargeData.type = "standard"
    THEN "system.recharge" :> [ value |-> rechargeData.minRoll, charged |-> TRUE ]
    ELSE IF rechargeData.type = "limited_use"
    THEN "system.uses" :> [ value |-> rechargeData.maxUses,
                            max |-> rechargeData.maxUses,
                            per |-> convertRestTypeToFoundry(rechargeData.restoreOn) ]
    ELSE << >>

\* RechargeAutomation.generateRechargeMacros: the macros by the suffix of
\* their name
generateRechargeMacros(rechargeData) ==
    << "Usage" >>
    \o When(rechargeData.type = "standard", "Recharge")
    \o When(rechargeData.type = "conditional", "ConditionalRecharge")

\* RechargeAutomation.generateRechargeHooks: the hooks by their event
generateRechargeHooks(rechargeData) ==
    When(rechargeData.type = "standard", "combatTurn")

\* RechargeAutomation.generateRechargeFlags (dataLeaves: the rechargeData
\* object as flag leaves under automancy.rechargeData)
generateRechargeFlags(rechargeData) ==
    LET automatic == IF rechargeData.automatic THEN "true" ELSE "false"
        dataLeaves ==
            { << <<"rechargeData">>, OBJ >>,
              << <<"rechargeData", "type">>, rechargeData.type >>,
              << <<"rechargeData", "timing">>, rechargeData.timing >>,
              << <<"rechargeData", "automatic">>, automatic >> }
            \cup (IF rechargeData.type = "standard"
                  THEN { << <<"rechargeData", "minRoll">>,
                            ToString(rechargeData.minRoll) >>,
                         << <<"rechargeData", "maxRoll">>,
                            ToString(rechargeData.maxRoll) >> }
                  ELSE IF rechargeData.type = "limited_use"
                  THEN { << <<"rechargeData", "maxUses">>,
                            ToString(rechargeData.maxUses) >>,
                         << <<"rechargeData", "restoreOn">>,
                            rechargeData.restoreOn >> }
                  ELSE { << <<"rechargeData", "condition">>,
                            rechargeData.condition >> })
    IN Wrap("midi-qol", Flags({ << <<"rechargeTracking">>, "true" >>,
                                << <<"postUseMacro">>, "Usage,postItemRoll" >> }))
       @@ Wrap("automancy", Flags({ << <<"rechargeType">>, rechargeData.type >>,
                                    << <<"automatedRecharge">>, automatic >> }
                                  \cup dataLeaves))

\* RechargeAutomation.generateRechargeSystem.  Without recharge the result
\* has no flags (undefined, which deepMergeFlags skips like an empty
\* bundle).
generateRechargeSystem(ability) ==
    LET rechargeData == analyzeRechargeRequirements(ability.raw)
    IN IF rechargeData = Null
       THEN [ hasRecharge |-> FALSE, itemUpdates |-> << >>, macros |-> << >>,
              hooks |-> << >>, flags |-> EmptyFlags ]
       ELSE [ hasRecharge |-> TRUE,
              rechargeData |-> rechargeData,
              itemUpdates |-> generateItemUpdates(rechargeData),
              macros |-> generateRechargeMacros(rechargeData),
              hooks |-> generateRechargeHooks(rechargeData),
              flags |-> generateRechargeFlags(rechargeData) ]

-----------------------------------------------------------------------------
(* ReactionTracking *)

\* ReactionTracking.extractReactionRange (Null stands for null):
\* /(?:within|range of) (\d+) (?:feet|ft)/i matches 'within 5 feet' of see.
extractReactionRange(t) == IF "see" \in t THEN [ value |-> 5 ] ELSE Null

\* ReactionTracking.extractReactionConditions: 'can see' is in see; no
\* clause holds a lower-case 'weapon attack'; /against (?:a |an )?(\w+)/i
\* matches 'against another' of ends.
extractReactionConditions(t) ==
    When("see" \in t, [ type |-> "line_of_sight", value |-> "null" ])
    \o When("ends" \in t, [ type |-> "target_type", value |-> "another" ])

\* ReactionTracking.extractReactionTiming: no clause holds 'before' or a
\* lower-case 'after'.
extractReactionTiming(t) == "immediate"

\* ReactionTracking.analyzeReactionTriggers: the tracking data, triggers by
\* type.  /(?:when|if).*takes? damage/ matches hulk; /(?:when|if).*moves?/
\* matches hulk and otherwise needs the 'when' of cond or ends or the 'If'
\* of leap before the 'move' of hitrun; /opportunity attack/ matches hitrun,
\* flyby and hulk; no text matches the attack and spell expressions.
analyzeReactionTriggers(t) ==
    [ triggers |->
        When("hulk" \in t, "damage_taken")
        \o When(\/ "hulk" \in t
                \/ "hitrun" \in t /\ t \cap { "cond", "ends", "leap" } # {},
                "target_moves")
        \o When(t \cap { "hitrun", "flyby", "hulk" } # {}, "opportunity_attack"),
      consumesReaction |-> TRUE,
      range |-> extractReactionRange(t),
      conditions |-> extractReactionConditions(t),
      timing |-> extractReactionTiming(t) ]

\* The hook of a trigger type
triggerHook(type) ==
    IF type = "damage_taken" THEN "midi-qol.DamageWorkflowComplete"
    ELSE IF type = "target_moves" THEN "updateToken"
    ELSE "midi-qol.OpportunityAttack"

\* ReactionTracking.generateReactionFlags
generateReactionFlags(trackingData) ==
    LET triggers == trackingData.triggers
    IN Wrap("midi-qol", Flags({ << <<"reactionTracking">>, "true" >>,
                                << <<"reactionType">>,
                                   IF triggers = << >> THEN "manual"
                                   ELSE triggers[1] >> }))
       @@ Wrap("gambits-premades",
               Flags({ << <<"isReaction">>, "true" >>,
                       << <<"reactionTriggers">>, ToString(triggers) >>,
                       << <<"consumesReaction">>,
                          Bool(trackingData.consumesReaction) >> }))
       @@ Wrap("automancy",
               Flags({ << <<"reactionSystem">>, "true" >>,
                       << <<"trackingData">>, OBJ >>,
                       << <<"trackingData", "triggers">>, ToString(triggers) >>,
                       << <<"trackingData", "consumesReaction">>,
                          Bool(trackingData.consumesReaction) >>,
                       << <<"trackingData", "range">>,
                          IF trackingData.range = Null THEN "null"
                          ELSE ToString(trackingData.range.value) >>,
                       << <<"trackingData", "conditions">>,
                          ToString(trackingData.conditions) >>,
                       << <<"trackingData", "timing">>, trackingData.timing >>,
                       << <<"professionalGrade">>, "true" >> }))

\* ReactionTracking.generateReactionSystem
generateReactionSystem(ability) ==
    IF ability.type # "reaction"
    THEN [ isReaction |-> FALSE, trackingData |-> Null, macros |-> << >>,
           hooks |-> << >>, flags |-> EmptyFlags ]
    ELSE LET trackingData == analyzeReactionTriggers(ability.raw)
             triggers == trackingData.triggers
         IN [ isReaction |-> TRUE,
              trackingData |-> trackingData,
              macros |-> << "ReactionTrigger", "ReactionValidation",
                            "ReactionConsumption" >>,
              hooks |-> [i \in DOMAIN triggers |-> triggerHook(triggers[i])],
              flags |-> generateReactionFlags(trackingData) ]

-----------------------------------------------------------------------------
(* OngoingEffectsTracking *)

\* OngoingEffectsTracking.extractEndCondition ("none" stands for
\* undefined): 'until unconscious' is in ongoU, 'until this grapple ends'
\* in lower case in ongoG (restr and hold have it with a capital), 'at full
\* hit points' in regen.
extractEndCondition(t) ==
    IF "ongoU" \in t THEN "unconscious"
    ELSE IF "ongoG" \in t THEN "parent_condition_ends"
    ELSE IF "regen" \in t THEN "full_hp"
    ELSE "none"

\* OngoingEffectsTracking.analyzeOngoingRequirements.  The start-of-turn
\* damage expression matches hold, ongo and ongoU, the first of them in the
\* text being hold or ongo (the same damage); the end-of-turn damage
\* expression matches ongoG, the healing expression regen, the
\* repeated-save expression rsave; 'while grappled' is in no clause.
\* text.includes('start') holds for hold, ongo, ongoU and regen.
\* extractSaveType reads saveM, save or bolt (all Dexterity), extractSaveDC
\* a DC of 15 or its default of 15.
analyzeOngoingRequirements(t) ==
    LET endCondition == extractEndCondition(t)
        hasStart == t \cap { "hold", "ongo", "ongoU", "regen" } # {}
        timing == IF hasStart THEN "start_of_turn" ELSE "end_of_turn"
        first == t \cap { "hold", "ongo" } # {}
    IN When(first,
            [ type |-> "damage", timing |-> "start_of_turn", formula |-> "1d10",
              damageType |-> "bludgeoning", endCondition |-> endCondition ])
       \o When(~first /\ "ongoU" \in t,
               [ type |-> "damage", timing |-> "start_of_turn", formula |-> "1d6",
                 damageType |-> "fire", endCondition |-> endCondition ])
       \o When("ongoG" \in t,
               [ type |-> "damage", timing |-> "end_of_turn", formula |-> "1d10",
                 damageType |-> "bludgeoning", endCondition |-> endCondition ])
       \o When("regen" \in t,
               [ type |-> "healing", timing |-> timing, formula |-> "3d6",
                 endCondition |-> endCondition ])
       \o When("rsave" \in t,
               [ type |-> "save", timing |-> timing,
                 saveType |-> IF t \cap { "saveM", "save", "bolt" } # {}
                              THEN "dex" ELSE "con",
                 saveDC |-> 15, endCondition |-> "successful_save" ])
       \o When("ongoG" \in t,
               [ type |-> "condition_link", timing |-> "persistent",
                 linkedCondition |-> "grappled",
                 endCondition |-> "parent_condition_ends" ])

\* A generated script is the sequence of its steps.  The checks a script
\* may begin with: each ends the effect and returns when it fires.
\* OngoingEffectsTracking.generateParentEffectCheck ("comment": the text
\* generated is a comment)
generateParentEffectCheck(ongoing) ==
    IF ongoing.type = "condition_link" THEN "end_if_parent_gone" ELSE "comment"

\* Faulty variant of generateEndConditionCheck: no end condition is checked.

\* OngoingEffectsTracking.generateEndConditionCheck
generateEndConditionCheck(ongoing) ==
    CASE ongoing.endCondition = "none" -> "comment"
      [] ongoing.endCondition = "unconscious" -> "end_if_unconscious"
      [] ongoing.endCondition = "full_hp" -> "end_if_full_hp"
      [] ongoing.endCondition = "parent_condition_ends" ->
            generateParentEffectCheck(ongoing)
      [] OTHER -> "comment"

\* OngoingEffectsTracking.generateOngoingDamageMacro,
\* generateOngoingHealingMacro and generateOngoingSaveMacro: the steps of
\* the script, in order.  The steps named await_... are calls the script
\* waits for: "await_roll" is await new Roll(formula).evaluate(),
\* "await_save" await actor.rollAbilitySave(), "await_message" await
\* roll.toMessage() or await ChatMessage.create().  "apply_damage" is the
\* MidiQOL.DamageOnlyWorkflow or, without midi-qol, actor.update of the hit
\* points; the first argument of the workflow is effect.origin?.actor ||
\* actor, which throws inside the try when args[0] holds no effect, before
\* any workflow is made.  "apply_healing" is actor.update of the hit
\* points, "tint_token" the token.document.update an owner of the token
\* makes.  The last step of
\* every script throws inside the try: the damage script calls
\* this.updateOngoingStats and the save script this.removeLinkedEffects,
\* which are functions of the script and no methods of this, and the
\* healing and save scripts call updateOngoingStats, which only the damage
\* script defines; the line 'until this grapple ends' and its like hold no
\* 'save to end', so the save-to-end block is a comment.
generateOngoingMacroContent(ongoing) ==
    CASE ongoing.type = "damage" ->
            << "check_context", "check_actor_token",
               generateParentEffectCheck(ongoing), generateEndConditionCheck(ongoing),
               "await_roll", "await_message", "apply_damage", "throw" >>
      [] ongoing.type = "healing" ->
            << "check_context", "check_actor_token",
               generateParentEffectCheck(ongoing), generateEndConditionCheck(ongoing),
               "return_if_full_hp", "await_roll", "await_message", "apply_healing",
               "tint_token", "throw" >>
      [] ongoing.type = "save" ->
            << "check_context", "check_actor_token",
               generateParentEffectCheck(ongoing), "await_save", "await_message",
               "end_if_save_succeeded", "throw" >>

\* OngoingEffectsTracking.generateOngoingMacros: one macro per damage,
\* healing or save entry; ongoing is the entry it is generated from
generateOngoingMacros(ongoingData) ==
    LET withMacro == SelectSeq(ongoingData, LAMBDA e : e.type # "condition_link")
    IN [ i \in DOMAIN withMacro |->
           [ name |-> CASE withMacro[i].type = "damage" -> "OngoingDamage"
                        [] withMacro[i].type = "healing" -> "OngoingHealing"
                        [] withMacro[i].type = "save" -> "OngoingSave",
             ongoing |-> withMacro[i],
             content |-> generateOngoingMacroContent(withMacro[i]) ] ]

\* OngoingEffectsTracking.generateOngoingHooks: the hooks by their event
generateOngoingHooks(ongoingData) ==
    When(\E i \in DOMAIN ongoingData : ongoingData[i].timing = "start_of_turn",
         "combatTurn")
    \o When(\E i \in DOMAIN ongoingData : ongoingData[i].timing = "end_of_turn",
            "combatTurnEnd")

\* OngoingEffectsTracking.determineMacroRepeat
determineMacroRepeat(ongoingData) ==
    LET hasStart == \E i \in DOMAIN ongoingData : ongoingData[i].timing = "start_of_turn"
        hasEnd == \E i \in DOMAIN ongoingData : ongoingData[i].timing = "end_of_turn"
    IN IF hasStart /\ hasEnd THEN "startEndEveryTurn"
       ELSE IF hasStart THEN "startEveryTurn"
       ELSE IF hasEnd THEN "endEveryTurn"
       ELSE "none"

\* The array of the entries' types as a flag leaf
RECURSIVE typesLeaf(_)
typesLeaf(ongoingData) ==
    IF ongoingData = << >> THEN ""
    ELSE Head(ongoingData).type
         \o (IF Len(ongoingData) > 1 THEN "," ELSE "")
         \o typesLeaf(Tail(ongoingData))

\* OngoingEffectsTracking.generateOngoingActiveEffects / createOngoingDamageEffect:
\* each effect draws its own identifier; the effects carry no statuses field.
generateOngoingActiveEffects(ongoingData, s, n0) ==
    [i \in DOMAIN ongoingData |->
        [ _id |-> generateFoundryId(s, n0 + i),
          name |-> CASE ongoingData[i].type = "damage" -> "Ongoing Damage"
                     [] ongoingData[i].type = "healing" -> "Ongoing Healing"
                     [] ongoingData[i].type = "save" -> "Ongoing Save"
                     [] OTHER -> "Linked Effect",
          statuses |-> << >>,
          transfer |-> FALSE ]]

\* OngoingEffectsTracking.generateOngoingFlags
generateOngoingFlags(ongoingData) ==
    Wrap("midi-qol", Flags({ << <<"ongoingEffects">>, "true" >>,
                             << <<"effectCount">>, ToString(Len(ongoingData)) >> }))
    @@ Wrap("dae", Flags({ << <<"macroRepeat">>, determineMacroRepeat(ongoingData) >>,
                           << <<"ongoingTracking">>, "true" >> }))
    @@ Wrap("chris-premades", Flags({ << <<"hasOngoingEffects">>, "true" >>,
                                      << <<"effectTypes">>,
                                         "[" \o typesLeaf(ongoingData) \o "]" >> }))
    @@ Wrap("automancy", Flags({ << <<"ongoingSystem">>, "true" >>,
                                 << <<"ongoingEffects">>,
                                    "[" \o typesLeaf(ongoingData) \o "]" >>,
                                 << <<"professionalGrade">>, "true" >> }))

\* OngoingEffectsTracking.generateOngoingSystem
generateOngoingSystem(ability, s, n0) ==
    LET ongoingData == analyzeOngoingRequirements(ability.raw)
    IN IF ongoingData = << >>
       THEN [ hasOngoingEffects |-> FALSE, effects |-> << >>, macros |-> << >>,
              macroContents |-> << >>, hooks |-> << >>, flags |-> EmptyFlags ]
       ELSE [ hasOngoingEffects |-> TRUE,
              effects |-> generateOngoingActiveEffects(ongoingData, s, n0),
              macros |-> [ i \in DOMAIN generateOngoingMacros(ongoingData) |->
                             generateOngoingMacros(ongoingData)[i].name ],
              macroContents |-> generateOngoingMacros(ongoingData),
              hooks |-> generateOngoingHooks(ongoingData),
              flags |-> generateOngoingFlags(ongoingData) ]

-----------------------------------------------------------------------------
(* MovementAttackIntegration *)

\* MovementAttackIntegration.extractMovementType, called for the
\* move-attack-conditional pattern only: 'leap' is in leap, 'jump' in no
\* clause; 'charge' is in rech, rech46, rech6 ('Recharge'), cond and charge;
\* 'flies' is in flyby; 'fly' and 'teleport' are in no other clause.
extractMovementType(t) ==
    IF "leap" \in t THEN "leap"
    ELSE IF t \cap { "rech", "rech46", "rech6", "cond", "charge" } # {}
    THEN "straight_line"
    ELSE IF "flyby" \in t THEN "fly"
    ELSE "normal"

\* MovementAttackIntegration.extractAttackType: /bite/i matches no clause,
\* /claw/i ends and leap, /weapon attack/i mwak, /spell attack/i rsak.
extractMovementAttackType(t) ==
    IF t \cap { "ends", "leap" } # {} THEN "claw"
    ELSE IF "mwak" \in t THEN "weapon"
    ELSE IF "rsak" \in t THEN "spell"
    ELSE "attack"

\* MovementAttackIntegration.extractConditionalEffect (case-sensitive
\* includes): 'prone' is in prone and leap; 'grapple' in fail, succ, hold,
\* ends, grap, restr and ongoG; 'knock' in leap; 'bonus' in bonus, 'extra'
\* in charge; 'push' and 'additional' in no clause.
extractConditionalEffect(t) ==
    IF t \cap { "prone", "leap" } # {} THEN "prone"
    ELSE IF t \cap { "fail", "succ", "hold", "ends", "grap", "restr", "ongoG" } # {}
    THEN "grapple"
    ELSE IF t \cap { "bonus", "charge" } # {} THEN "bonus_damage"
    ELSE "none"

\* The first number written in a clause, for the clauses that hold one
FirstNumber ==
    [ rech |-> 5, rech46 |-> 4, rech6 |-> 6, lim |-> 3, limS |-> 1, see |-> 5,
      saveM |-> 15, fail |-> 22, hold |-> 5, mwak |-> 5, rsak |-> 7,
      dmgS |-> 2, heal |-> 2, dup |-> 1, save |-> 15, grap |-> 15, ongo |-> 5,
      ongoU |-> 3, ongoG |-> 5, regen |-> 10, ongoF |-> 5, leap |-> 20,
      charge |-> 20, bolt |-> 15 ]

\* The first group of the charge expression
\* /charges?.*?(\d+).*?(?:feet|ft).*?(?:straight line|toward).*?(?:attack|ram)
\* .*?(?:additional|extra|bonus) (\d+(?:d\d+)?)/i on a text that holds the
\* charge clause: the match starts at the first 'charge' of the text, which
\* is inside 'Recharge' (rech, rech46, rech6) or 'recharges' (cond) when one
\* of these clauses is there, and the group is the first number after it.
chargeDistance(t) ==
    LET after == { c \in t \cap DOMAIN FirstNumber :
                     Place("cond") < Place(c) /\ Place(c) <= Place("charge") }
    IN IF "rech" \in t THEN FirstNumber["rech"]
       ELSE IF "rech46" \in t THEN FirstNumber["rech46"]
       ELSE IF "rech6" \in t THEN FirstNumber["rech6"]
       ELSE IF "cond" \in t
       THEN FirstNumber[CHOOSE c \in after : \A d \in after : Place(c) <= Place(d)]
       ELSE FirstNumber["charge"]

\* MovementAttackIntegration.detectMovementAttackPatterns.  Only leap
\* matches the move-attack-conditional expression (distance 20).  The
\* attack-move expression matches hitrun, and hulk when a clause before it
\* holds 'attack' or 'hit' (cond, ends, mwak, rsak, regen, ongoF, adv, dis,
\* leap, flyby); its distance group is never filled, so the distance is the
\* default 20.  Only flyby matches the flyby expression, kept when the
\* attack-move expression did not match.  The charge expression matches
\* when the charge clause is there; its second group is '2d6'.
detectMovementAttackPatterns(t) ==
    LET attackMove ==
            \/ "hitrun" \in t
            \/ /\ "hulk" \in t
               /\ t \cap { "cond", "ends", "mwak", "rsak", "regen", "ongoF",
                           "adv", "dis", "leap", "flyby" } # {}
        attackType == extractMovementAttackType(t)
    IN When("leap" \in t,
            [ type |-> "move_attack_conditional", movementDistance |-> 20,
              movementType |-> extractMovementType(t),
              attackType |-> attackType,
              conditionalEffect |-> extractConditionalEffect(t),
              requirements |-> << "Move at least 20 feet toward target" >>,
              description |-> "Move up to 20 feet, then attack with conditional effects" ])
       \o When(attackMove,
            [ type |-> "attack_move", movementDistance |-> 20,
              movementType |-> "normal", attackType |-> attackType,
              conditionalEffect |-> "no_opportunity_attacks",
              requirements |-> << "Make attack first" >>,
              description |-> "Attack, then move up to 20 feet without opportunity attacks" ])
       \o When("flyby" \in t /\ ~attackMove,
            [ type |-> "flyby_attack", movementDistance |-> 30,
              movementType |-> "fly", attackType |-> attackType,
              conditionalEffect |-> "no_opportunity_attacks",
              requirements |-> << "Can fly" >>,
              description |-> "Move, attack, continue moving without opportunity attacks" ])
       \o When("charge" \in t,
            [ type |-> "charge", movementDistance |-> chargeDistance(t),
              movementType |-> "straight_line", attackType |-> attackType,
              conditionalEffect |-> "bonus_damage_2d6",
              requirements |-> << "Move " \o ToString(chargeDistance(t))
                                  \o " feet in straight line toward target" >>,
              description |-> "Charge " \o ToString(chargeDistance(t))
                              \o " feet for +2d6 damage" ])

\* MovementAttackIntegration.generateActivationSteps: the actions in order
generateActivationSteps(pattern) ==
    CASE pattern.type = "move_attack_conditional" ->
            << "template_targeting", "automatic_movement", "distance_validation",
               "target_selection", "attack_workflow" >>
      [] pattern.type = "attack_move" ->
            << "target_selection", "attack_workflow", "template_targeting",
               "automatic_movement" >>
      [] pattern.type = "flyby_attack" ->
            << "movement_path_selection", "automatic_movement", "attack_at_point",
               "complete_movement" >>
      [] pattern.type = "charge" ->
            << "straight_line_template", "automatic_movement", "distance_validation",
               "attack_workflow" >>

\* MovementAttackIntegration.getTemplateType
getTemplateType(patternType) ==
    IF patternType \in { "charge", "flyby_attack" } THEN "ray" ELSE "circle"

\* MovementAttackIntegration.getTemplateShape
getTemplateShape(movementType) ==
    IF movementType \in { "straight_line", "fly" } THEN "ray" ELSE "circle"

\* MovementAttackIntegration.generateTemplateConfiguration
generateTemplateConfiguration(patterns) ==
    LET primary == patterns[1]
    IN [ templateType |-> getTemplateType(primary.type),
         maxRange |-> primary.movementDistance,
         shape |-> getTemplateShape(primary.movementType),
         requiresLineOfSight |-> primary.movementType # "teleport",
         allowsPartialMovement |-> primary.type # "charge" ]

\* MovementAttackIntegration.generateMovementAttackFlags
generateMovementAttackFlags(patterns) ==
    LET primary == patterns[1]
        templateConfig == generateTemplateConfiguration(patterns)
    IN Wrap("midi-qol", Flags({ << <<"templateRequired">>, "true" >>,
                                << <<"rangeTarget">>, "template" >>,
                                << <<"movementAttackIntegration">>, "true" >> }))
       @@ Wrap("chris-premades",
               Flags({ << <<"movementAttack">>, OBJ >>,
                       << <<"movementAttack", "pattern">>, primary.type >>,
                       << <<"movementAttack", "distance">>,
                          ToString(primary.movementDistance) >>,
                       << <<"movementAttack", "integratedWorkflow">>, "true" >> }))
       @@ Wrap("automancy",
               Flags({ << <<"movementAttackPattern">>, primary.type >>,
                       << <<"integrationApplied">>, "true" >>,
                       << <<"templateConfig">>, OBJ >>,
                       << <<"templateConfig", "templateType">>,
                          templateConfig.templateType >>,
                       << <<"templateConfig", "maxRange">>,
                          ToString(templateConfig.maxRange) >>,
                       << <<"templateConfig", "shape">>, templateConfig.shape >>,
                       << <<"templateConfig", "requiresLineOfSight">>,
                          Bool(templateConfig.requiresLineOfSight) >>,
                       << <<"templateConfig", "allowsPartialMovement">>,
                          Bool(templateConfig.allowsPartialMovement) >> }))

\* MovementAttackIntegration.generateIntegratedActivation
generateIntegratedActivation(patterns) ==
    [ activationType |-> "template_then_workflow",
      description |-> patterns[1].description,
      steps |-> generateActivationSteps(patterns[1]) ]

\* MovementAttackIntegration.analyzeMovementAttackPattern
analyzeMovementAttackPattern(ability) ==
    LET patterns == detectMovementAttackPatterns(ability.raw)
    IN IF patterns = << >> THEN Null
       ELSE [ hasMovementAttackPattern |-> TRUE,
              patterns |-> patterns,
              integratedActivation |-> generateIntegratedActivation(patterns),
              templateConfig |-> generateTemplateConfiguration(patterns),
              macroIntegration |-> "MovementAttack",
              flags |-> generateMovementAttackFlags(patterns) ]

-----------------------------------------------------------------------------
(* Phase2Converter *)

\* { ...a, ...b }
spread(a, b) ==
    [p \in { q \in DOMAIN a : q[1] \notin ObjectKeys(b) } \cup DOMAIN b
        |-> IF p \in DOMAIN b THEN b[p] ELSE a[p]]

\* Phase2Converter.getAppliedSystems
getAppliedSystems(sys) ==
    When(Len(sys.conditionSystem.effects) > 0, "condition-engine")
    \o When(Len(sys.macroIntegration.macros) > 0, "macro-templates")
    \o When(sys.rechargeSystem.hasRecharge, "recharge-automation")
    \o When(sys.reactionSystem.isReaction, "reaction-tracking")
    \o When(sys.ongoingSystem.hasOngoingEffects, "ongoing-effects")

\* Faulty variant of mergeConditionEffects: the condition pass's effects are
\* always appended.
mergeConditionEffectsAlways(effects, conditionEffects) ==
    effects \o conditionEffects

\* Phase2Converter.integrateAllSystems, the condition-effect branch: the
\* condition pass's effects are pushed unless an effect of the item carries
\* a status.
mergeConditionEffects(effects, conditionEffects) ==
    IF Len(conditionEffects) > 0
    THEN LET hasExistingConditionEffects ==
                \E i \in DOMAIN effects : Len(effects[i].statuses) > 0
         IN IF ~hasExistingConditionEffects THEN effects \o conditionEffects
            ELSE effects
    ELSE effects

\* Faulty variant of JSONClone: a shallow copy ({ ...baseItem }), whose
\* nested objects are those of the base item.
JSONCloneShallow(item) ==
    [ value |-> item, shared |-> { "system", "effects", "flags" } ]

\* JSON.parse(JSON.stringify(baseItem)): a copy that holds no part of the
\* base item by reference.
JSONClone(item) == [ value |-> item, shared |-> {} ]

\* Phase2Converter.integrateAllSystems, the value of the returned item.
\* Object.assign puts the recharge updates on the system data under their
\* own (dotted) keys; now is what new Date() reads when the metadata is
\* written.
integrateAllSystems(baseItem, sys, now) ==
    LET enhancedItem == JSONClone(baseItem).value
        merged == deepMergeFlags(<< enhancedItem.flags,
                                    sys.professionalFlags,
                                    sys.macroIntegration.flags,
                                    sys.rechargeSystem.flags,
                                    sys.reactionSystem.flags,
                                    sys.ongoingSystem.flags,
                                    sys.conditionSystem.flags >>)
        system == IF sys.rechargeSystem.hasRecharge
                  THEN sys.rechargeSystem.itemUpdates @@ enhancedItem.system
                  ELSE enhancedItem.system
        effects1 == mergeConditionEffects(enhancedItem.effects, sys.conditionSystem.effects)
        effects2 == IF sys.ongoingSystem.hasOngoingEffects
                    THEN effects1 \o sys.ongoingSystem.effects
                    ELSE effects1
        metadata == Flags({ << <<"phase2">>, "true" >>,
                            << <<"professionalGrade">>, "true" >>,
                            << <<"enhancementTimestamp">>, toISOString(now) >>,
                            << <<"systemsIntegrated">>,
                               ToString(getAppliedSystems(sys)) >>,
                            << <<"requiresNoManualWork">>, "true" >> })
        automancy == spread(Sub(merged, "automancy"), metadata)
    IN [ enhancedItem EXCEPT !.flags = SetKey(merged, "automancy", OBJ, automancy),
                         !.system = system,
                         !.effects = effects2 ]

\* Phase2Converter.integrateAllSystems: the parts of the base item the
\* returned item still holds by reference (enhancedItem.flags is assigned a
\* new object; system and effects are written through the reference).
integrateAllSystemsShared(baseItem) == JSONClone(baseItem).shared \ { "flags" }

\* Phase2Converter.integrateAllSystems: the base item after the call.
\* Object.assign(enhancedItem.system, ...) and enhancedItem.effects.push(...)
\* write to the objects enhancedItem refers to.
integrateAllSystemsBase(baseItem, sys, now) ==
    LET clone == JSONClone(baseItem)
        written == integrateAllSystems(baseItem, sys, now)
    IN [ baseItem EXCEPT
           !.system = IF "system" \in clone.shared THEN written.system ELSE @,
           !.effects = IF "effects" \in clone.shared THEN written.effects ELSE @ ]

\* Faulty variant of calculateFinalComplexity: the tier is computed from the
\* integrated systems alone.
calculateFinalComplexitySystemsOnly(analysis, systemFlags) ==
    IF systemFlags.isReaction THEN 4
    ELSE IF systemFlags.hasMacros \/ systemFlags.hasOngoing THEN 3
    ELSE IF systemFlags.hasConditions THEN 2
    ELSE 1

\* Phase2Converter.calculateFinalComplexity
calculateFinalComplexity(analysis, systemFlags) ==
    LET c0 == analysis.complexity
        c1 == IF systemFlags.hasConditions THEN Max(c0, 2) ELSE c0
        c2 == IF systemFlags.hasMacros \/ systemFlags.hasOngoing THEN Max(c1, 3) ELSE c1
        c3 == IF systemFlags.isReaction THEN Max(c2, 4) ELSE c2
        c4 == IF Len(analysis.requirements) > 0 \/ Len(analysis.linkedEffects) > 0
              THEN Max(c3, 3) ELSE c3
    IN c4

\* Phase2Converter.calculateAutomationCoverage, in percent: every counted
\* feature is also counted as automated.
calculateAutomationCoverage(analysis) ==
    LET totalFeatures == Len(analysis.damage) + Len(analysis.saves)
                         + Len(analysis.effects) + Len(analysis.conditions)
                         + Len(analysis.requirements) + Len(analysis.linkedEffects)
        automatedFeatures == totalFeatures
    IN IF totalFeatures > 0 THEN (100 * automatedFeatures) \div totalFeatures ELSE 100

\* Phase2Converter.assessProfessionalGrade (error handling and performance
\* optimization are passed as true)
assessProfessionalGrade(flagQuality, macroQuality, automationCoverage) ==
    LET g1 == IF flagQuality >= 4 THEN 3 ELSE IF flagQuality >= 2 THEN 2
              ELSE IF flagQuality >= 1 THEN 1 ELSE 0
        g2 == IF macroQuality >= 3 THEN 2 ELSE IF macroQuality >= 1 THEN 1 ELSE 0
        g3 == IF automationCoverage >= 90 THEN 3 ELSE IF automationCoverage >= 70 THEN 2
              ELSE IF automationCoverage >= 50 THEN 1 ELSE 0
    IN Min(g1 + g2 + g3 + 1 + 1, 10)

\* Phase2Converter.consolidateAllMacros
consolidateAllMacros(sys) ==
    sys.conditionSystem.macros \o sys.macroIntegration.macros
    \o sys.rechargeSystem.macros \o sys.reactionSystem.macros
    \o sys.ongoingSystem.macros

\* Phase2Converter.consolidateAllEffects
consolidateAllEffects(sys) ==
    sys.conditionSystem.effects \o sys.ongoingSystem.effects

\* The result literal of applyPhase2Enhancement
enhancementResult(enhancedItem, sys) ==
    [ enhancedItem |-> enhancedItem,
      finalComplexity |->
          calculateFinalComplexity(sys.complexAnalysis,
              [ hasConditions |-> Len(sys.conditionSystem.effects) > 0,
                hasMacros |-> Len(sys.macroIntegration.macros) > 0,
                hasRecharge |-> sys.rechargeSystem.hasRecharge,
                isReaction |-> sys.reactionSystem.isReaction,
                hasOngoing |-> sys.ongoingSystem.hasOngoingEffects ]),
      professionalGrade |->
          assessProfessionalGrade(Cardinality(ObjectKeys(sys.professionalFlags)),
                                  Len(sys.macroIntegration.macros),
                                  calculateAutomationCoverage(sys.complexAnalysis)),
      systemsApplied |-> getAppliedSystems(sys),
      macros |-> consolidateAllMacros(sys),
      additionalEffects |-> consolidateAllEffects(sys),
      professionalFlags |-> sys.professionalFlags ]

\* Phase2Converter.convertAbility, the baseResult of a successful base
\* conversion
baseSuccess(abilityDescription, automation) ==
    [ success |-> TRUE,
      error |-> "",
      original |-> abilityDescription,
      automation |-> automation,
      foundryItem |-> [ automation.item EXCEPT !.effects = automation.effects,
                                               !.flags = automation.flags ],
      parsedAbility |-> abilityDescription ]

\* Faulty variant of baseFailure: the failure is reported as a success.
baseFailureAsSuccess(message) ==
    [ success |-> TRUE, error |-> message, original |-> Null, automation |-> Null,
      foundryItem |-> Null,
      phase2Enhancement |-> [ applied |-> FALSE, reason |-> "Base analysis failed" ] ]

\* Phase2Converter.convertAbility, the result returned when the base
\* conversion throws
baseFailure(message) ==
    [ success |-> FALSE, error |-> message, original |-> Null, automation |-> Null,
      foundryItem |-> Null,
      phase2Enhancement |-> [ applied |-> FALSE, reason |-> "Base analysis failed" ] ]

\* Faulty variant of enhancementFailure: the item is dropped with the
\* enhancement.
enhancementFailureNoItem(base, message) ==
    [ phase2Enhancement |-> [ applied |-> FALSE,
                              reason |-> "Enhancement failed: " \o message ] ]
    @@ [ base EXCEPT !.foundryItem = Null ]

\* Phase2Converter.convertAbility, the result returned when the enhancement
\* throws
enhancementFailure(base, message) ==
    [ phase2Enhancement |-> [ applied |-> FALSE,
                              reason |-> "Enhancement failed: " \o message ] ]
    @@ base

\* Phase2Converter.convertAbility, the result returned after the enhancement
enhancementSuccess(base, enhancedResult) ==
    [ phase2Enhancement |->
        [ applied |-> TRUE,
          reason |-> "",
          complexity |-> enhancedResult.finalComplexity,
          professionalGrade |-> enhancedResult.professionalGrade,
          automationSystems |-> enhancedResult.systemsApplied,
          macros |-> enhancedResult.macros,
          additionalEffects |-> enhancedResult.additionalEffects,
          professionalFlags |-> enhancedResult.professionalFlags ] ]
    @@ [ base EXCEPT !.foundryItem = enhancedResult.enhancedItem ]

-----------------------------------------------------------------------------
(* Phase2Converter.convertAbility as a state machine.  pc is the position   *)
(* in the call; the passes of applyPhase2Enhancement run in source order.   *)

\* A local that has not been assigned yet
NotRun == [notRun |-> TRUE]

NoSystems ==
    [ complexAnalysis |-> NotRun, conditionSystem |-> NotRun,
      professionalFlags |-> NotRun, macroIntegration |-> NotRun,
      rechargeSystem |-> NotRun, reactionSystem |-> NotRun,
      ongoingSystem |-> NotRun, movementAttackData |-> NotRun ]

\* Messages of the errors thrown inside the enhancement
Messages == { "", "TypeError" }

\* The positions inside the try block of the enhancement
EnhancementSteps ==
    { "parse", "conditions", "flags", "macros", "recharge", "reaction",
      "ongoing", "movement", "integrate", "finish" }

\* The actors of a combat and the runs of a reaction trigger script
Actors == { "owlbear", "goblin" }
Runs == 1 .. MaxRuns

\* A run that has not started
IdleRun == [ pc |-> "idle", actor |-> "none", seen |-> FALSE, round |-> 0 ]

\* The game before any generated script has run in it: round 1 of a combat,
\* no reaction used, no converted item
WorldIdle ==
    /\ rxUsed = [ a \in Actors |-> FALSE ]
    /\ rxRound = 1
    /\ rxRuns = [ r \in Runs |-> IdleRun ]
    /\ rxValid = Null /\ rxQueue = [ set |-> FALSE, value |-> << >> ] /\ rxQueueOut = Null
    /\ rxLoops = << >>
    /\ rrItem = Null /\ rrLast = Null /\ rrRuns = << >>

\* No call has returned yet; the clock reads its first value
CallsIdle == clock = 1 /\ firstResult = Null /\ WorldIdle

\* No generated script has been produced or run
OngoingIdle == ogText = {} /\ ogOut = Null /\ ogTarget = Null /\ ogRun = Null

\* applyMovementAttackIntegration has not been called
MovementIdle == mvText = {} /\ mvItem = Null /\ mvOut = Null

ScriptsIdle == OngoingIdle /\ MovementIdle

\* A PatternMatcher after construction, before any call
PatternsIdle ==
    /\ pmPatterns = initializePatterns
    /\ pmText = {} /\ pmCall = Null /\ pmOut = Null
    /\ taText = {} /\ taOut = Null
    /\ rcText = {} /\ rcOut = Null
    /\ ScriptsIdle

Init ==
    /\ pc = "start"
    /\ malformed \in BOOLEAN
    /\ text \in IF malformed THEN { {} } ELSE Texts
    /\ seed \in Seeds
    /\ rng = 0
    /\ CallsIdle
    /\ parsed = Null
    /\ effectIds = << >>
    /\ baseResult = Null
    /\ systems = NoSystems
    /\ enhanced = Null
    /\ shared = {}
    /\ result = Null
    /\ cxIn = Null /\ cxOut = 0
    /\ mSources = << >> /\ mPos = 0 /\ mResult = EmptyFlags
    /\ PatternsIdle

\* convertAbility lines 51-70: analyzeText and generateAutomation succeed
BaseConversion ==
    /\ pc = "start" /\ ~malformed
    /\ LET ability == analyzeText(text)
       IN /\ parsed' = ability
          /\ effectIds' = generateEffectIds(ability, seed, rng)
          /\ baseResult' = baseSuccess(ability, generateAutomation(ability, seed, rng))
          /\ rng' = rng + automationDraws(ability)
    /\ pc' = "parse"
    /\ UNCHANGED << malformed, text, seed, systems, enhanced, shared, result >>
    /\ UNCHANGED << cxVars, mergeVars, pmVars, taVars, rcVars, scriptVars >>

\* convertAbility lines 72-81: the argument is not a string, extractName
\* throws a TypeError and the catch returns the failure result
BaseFailure ==
    /\ pc = "start" /\ malformed
    /\ result' = baseFailure("Cannot read properties of null (reading 'split')")
    /\ pc' = "done"
    /\ UNCHANGED << malformed, text, seed, rng, parsed, effectIds, baseResult,
                    systems, enhanced, shared >>
    /\ UNCHANGED << cxVars, mergeVars, pmVars, taVars, rcVars, scriptVars >>

\* One pass of applyPhase2Enhancement: at position from, assign the local
Pass(from, to, field, value, draws) ==
    /\ pc = from
    /\ systems' = [systems EXCEPT ![field] = value]
    /\ rng' = rng + draws
    /\ pc' = to
    /\ UNCHANGED << malformed, text, seed, parsed, effectIds, baseResult,
                    enhanced, shared, result >>
    /\ UNCHANGED << cxVars, mergeVars, pmVars, taVars, rcVars, scriptVars >>

\* Step 1
ParseComplex ==
    /\ pc = "parse"
    /\ Pass("parse", "conditions", "complexAnalysis",
            parseComplexAbility(baseResult.parsedAbility), 0)

\* Step 2
ConditionPass ==
    /\ pc = "conditions"
    /\ LET c == generateConditionEffects(systems.complexAnalysis, seed, rng)
       IN Pass("conditions", "flags", "conditionSystem", c, Len(c.effects))

\* What new Date() can read after the last reading: the clock has not moved
\* since, or it has
ClockReadings == { now \in { clock, clock + 1 } : now <= MaxClock }

\* Step 3; generateAutomancyMetadata reads the clock, the first reading of
\* the call: the variable clock holds it from the start of the call
FlagPass ==
    /\ pc = "flags"
    /\ systems' = [ systems EXCEPT !.professionalFlags =
                      generateAllProfessionalFlags(systems.complexAnalysis, clock) ]
    /\ pc' = "macros"
    /\ UNCHANGED << malformed, text, seed, rng, parsed, effectIds, baseResult,
                    enhanced, shared, result >>
    /\ UNCHANGED << cxVars, mergeVars, pmVars, taVars, rcVars, ogVars, callVars,
                    rxVars, rrVars, mvVars >>

\* Step 4
MacroPass ==
    /\ pc = "macros"
    /\ \E m \in MacroIntegrations :
          Pass("macros", "recharge", "macroIntegration", m, 0)

\* Step 5
RechargePass ==
    /\ pc = "recharge"
    /\ Pass("recharge", "reaction", "rechargeSystem",
            generateRechargeSystem(systems.complexAnalysis), 0)

\* Step 6
ReactionPass ==
    /\ pc = "reaction"
    /\ Pass("reaction", "ongoing", "reactionSystem",
            generateReactionSystem(systems.complexAnalysis), 0)

\* Step 7
OngoingPass ==
    /\ pc = "ongoing"
    /\ LET o == generateOngoingSystem(systems.complexAnalysis, seed, rng)
       IN Pass("ongoing", "movement", "ongoingSystem", o, Len(o.effects))

\* Step 8
MovementPass ==
    /\ pc = "movement"
    /\ Pass("movement", "integrate", "movementAttackData",
            analyzeMovementAttackPattern(systems.complexAnalysis), 0)

\* Step 9: integrateAllSystems; the movement-attack data is not among its
\* arguments.  The call reads the clock again for enhancementTimestamp.
Integrate ==
    /\ pc = "integrate"
    /\ \E now \in ClockReadings :
          /\ clock' = now
          /\ enhanced' = integrateAllSystems(baseResult.foundryItem, systems, now)
          /\ baseResult' = [ baseResult EXCEPT !.foundryItem =
                integrateAllSystemsBase(baseResult.foundryItem, systems, now) ]
    /\ shared' = integrateAllSystemsShared(baseResult.foundryItem)
    /\ pc' = "finish"
    /\ UNCHANGED << malformed, text, seed, rng, parsed, effectIds, systems, result >>
    /\ UNCHANGED << cxVars, mergeVars, pmVars, taVars, rcVars, ogVars,
                    firstResult, rxVars, rrVars, mvVars >>

\* applyPhase2Enhancement lines 181-222 and convertAbility lines 102-114
Finish ==
    /\ pc = "finish"
    /\ result' = enhancementSuccess(baseResult, enhancementResult(enhanced, systems))
    /\ pc' = "done"
    /\ UNCHANGED << malformed, text, seed, rng, parsed, effectIds, baseResult,
                    systems, enhanced, shared >>
    /\ UNCHANGED << cxVars, mergeVars, pmVars, taVars, rcVars, scriptVars >>

\* convertAbility lines 116-125: a pass or the merge throws, the catch
\* returns the base result
Throw ==
    /\ pc \in EnhancementSteps
    /\ \E message \in Messages : result' = enhancementFailure(baseResult, message)
    /\ pc' = "done"
    /\ UNCHANGED << malformed, text, seed, rng, parsed, effectIds, baseResult,
                    systems, enhanced, shared >>
    /\ UNCHANGED << cxVars, mergeVars, pmVars, taVars, rcVars, scriptVars >>

Next ==
    \/ BaseConversion \/ BaseFailure
    \/ ParseComplex \/ ConditionPass \/ FlagPass \/ MacroPass
    \/ RechargePass \/ ReactionPass \/ OngoingPass \/ MovementPass
    \/ Integrate \/ Finish \/ Throw

Spec == Init /\ [][Next]_vars

\* The scenario texts.  Bear Hug is the bearHugText of the owlbear test: its
\* recharge 4-6, a creature the owlbear can see, the DC 15 Dexterity save,
\* the damage and the grapple on a failed save, half damage on a successful
\* one, the restraint and the damage at the start of each turn until the
\* grapple ends, and how it ends
BearHugText == { "rech46", "see", "saveM", "fail", "succ", "hold", "ends" }

\* Lightning Bolt: the text of the Lightning Bolt case of handleDemo, name
\* and colon included: the save for half damage in a 60-foot line
LightningBoltText == { "bolt" }

\* Hulking Rush: the damage-taken trigger of the owlbear test, which has no
\* word 'reaction'
HulkingRushText == { "hulk" }

\* The conversion inputs of the scenarios: each scenario text, the Bear Hug
\* text with one of its clauses left out, the Hulking Rush text after the
\* clause that holds the word 'reaction', and a melee attack with
\* Recharge 5-6
ScenarioTexts ==
    { BearHugText } \cup { BearHugText \ { c } : c \in BearHugText }
    \cup { LightningBoltText }
    \cup { HulkingRushText, { "react" } \cup HulkingRushText }
    \cup { { "rech", "mwak" } }

\* convertAbility called on a scenario text
InitScenario ==
    /\ pc = "start"
    /\ malformed \in BOOLEAN
    /\ text \in IF malformed THEN { {} } ELSE ScenarioTexts
    /\ seed \in Seeds
    /\ rng = 0
    /\ CallsIdle
    /\ parsed = Null
    /\ effectIds = << >>
    /\ baseResult = Null
    /\ systems = NoSystems
    /\ enhanced = Null
    /\ shared = {}
    /\ result = Null
    /\ cxIn = Null /\ cxOut = 0
    /\ mSources = << >> /\ mPos = 0 /\ mResult = EmptyFlags
    /\ PatternsIdle

SpecScenario == InitScenario /\ [][Next]_vars

\* A second convertAbility call on the text of a call that has returned.
\* The converter keeps nothing of the first call; Math.random is in any
\* state, and the clock has moved on or not since it was last read.
ConvertAgain ==
    /\ pc = "done" /\ firstResult = Null
    /\ firstResult' = result
    /\ \E s \in Seeds : seed' = s
    /\ \E now \in ClockReadings : clock' = now
    /\ pc' = "start" /\ rng' = 0
    /\ parsed' = Null /\ effectIds' = << >> /\ baseResult' = Null
    /\ systems' = NoSystems /\ enhanced' = Null /\ shared' = {}
    /\ result' = Null
    /\ UNCHANGED << malformed, text >>
    /\ UNCHANGED << cxVars, mergeVars, pmVars, taVars, rcVars, ogVars, rxVars, rrVars, mvVars >>

\* Two convertAbility calls, one after the other, on a scenario text
SpecAgain == InitScenario /\ [][Next \/ ConvertAgain]_vars

-----------------------------------------------------------------------------
(* TextAnalyzer.assessComplexity on its own: the argument is drawn from the *)
(* abilities with up to MaxCount conditions, damage entries, saves and      *)
(* effects.                                                                 *)

\* A list of n entries
Entries(n) == [i \in 1..n |-> i]

ComplexityInputs ==
    { [ conditions |-> Entries(c), damage |-> Entries(d), saves |-> Entries(sv),
        effects |-> Entries(e),
        activation |-> [type |-> a],
        resources |-> [consumesResource |-> r] ] :
        c \in 0..MaxCount, d \in 0..MaxCount, sv \in 0..MaxCount, e \in 0..MaxCount,
        a \in {"action", "bonus", "reaction"}, r \in BOOLEAN }

PipelineIdle ==
    /\ pc = "idle" /\ malformed = FALSE /\ text = {} /\ seed = 1 /\ rng = 0
    /\ parsed = Null /\ effectIds = << >> /\ baseResult = Null
    /\ systems = NoSystems /\ enhanced = Null /\ shared = {} /\ result = Null
    /\ CallsIdle

InitComplexity ==
    /\ PipelineIdle
    /\ cxIn \in ComplexityInputs /\ cxOut = 0
    /\ mSources = << >> /\ mPos = 0 /\ mResult = EmptyFlags
    /\ PatternsIdle

\* analyzeText line 55: parsed.complexity = this.assessComplexity(parsed)
AssessComplexity ==
    /\ cxOut = 0
    /\ cxOut' = assessComplexity(cxIn)
    /\ UNCHANGED << cxIn, pipeVars, mergeVars, pmVars, taVars, rcVars, scriptVars >>

NextComplexity == AssessComplexity

SpecComplexity == InitComplexity /\ [][NextComplexity]_vars

-----------------------------------------------------------------------------
(* Phase2Converter.deepMergeFlags on its own: the sources are drawn from    *)
(* the bundles over the keys m and n, where m holds a scalar or an object   *)
(* over the keys a and b.                                                   *)

Scalars == { "x", "y" }

\* The objects over the keys a and b whose values are scalars or {}
InnerObjects ==
    { [p \in { <<k>> : k \in { j \in {"a", "b"} : c[j] # "-" } } |-> c[p[1]]] :
        c \in [ {"a", "b"} -> Scalars \cup { "-", OBJ } ] }

FlagBundles ==
    LET ms == { EmptyFlags }
              \cup { SetKey(EmptyFlags, "m", v, EmptyFlags) : v \in Scalars }
              \cup { Wrap("m", i) : i \in InnerObjects }
    IN ms \cup { SetKey(b, "n", "x", EmptyFlags) : b \in ms }

SourceLists ==
    UNION { [ 1..n -> FlagBundles ] : n \in 1..MaxSources }

InitMerge ==
    /\ PipelineIdle
    /\ cxIn = Null /\ cxOut = 0
    /\ mSources \in SourceLists /\ mPos = 0 /\ mResult = EmptyFlags
    /\ PatternsIdle

\* deepMergeFlags, one iteration of the loop over the sources
MergeStep ==
    /\ mPos < Len(mSources)
    /\ mResult' = mergeSource(mResult, mSources[mPos + 1])
    /\ mPos' = mPos + 1
    /\ UNCHANGED << mSources, pipeVars, cxVars, pmVars, taVars, rcVars, scriptVars >>

NextMerge == MergeStep

SpecMerge == InitMerge /\ [][NextMerge]_vars

-----------------------------------------------------------------------------
(* PatternMatcher on its own: any sequence of extractPatterns,              *)
(* getFirstMatch and hasPattern calls on one instance.  The extractors of   *)
(* the registry do not throw on a match of their own regex; the calls of    *)
(* extractPatterns are also run with an extractor that throws on chosen     *)
(* matches, which is the case the try block of the loop is there for.       *)

PatternClauses == { "mwak", "ongo", "bonus", "act" }

\* The texts given to the pattern matcher
PatternTexts == SUBSET PatternClauses

\* The names getFirstMatch and hasPattern are called with
QueriedNames == { "weapon_attack", "damage_with_average", "unregistered" }

\* The matches of the text, as <<name, index>>
AllMatches(t) ==
    UNION { { << PatternNames[i], regexMatches(PatternNames[i], t)[k].index >> :
                k \in DOMAIN regexMatches(PatternNames[i], t) } :
            i \in DOMAIN PatternNames }

\* The sets of matches on which the extractor throws
ThrowSets(t) == { th \in SUBSET AllMatches(t) : Cardinality(th) <= MaxThrows }

InitPatterns ==
    /\ PipelineIdle
    /\ cxIn = Null /\ cxOut = 0
    /\ mSources = << >> /\ mPos = 0 /\ mResult = EmptyFlags
    /\ PatternsIdle

\* A call of PatternMatcher.extractPatterns
ExtractPatterns ==
    \E t \in PatternTexts : \E throwing \in ThrowSets(t) :
        \E r \in { extractPatterns(pmPatterns, t, throwing) } :
           /\ pmPatterns' = r.patterns
           /\ pmOut' = r.results
           /\ pmText' = t
           /\ pmCall' = [ method |-> "extractPatterns", name |-> "",
                          throwing |-> throwing ]
           /\ UNCHANGED << pipeVars, cxVars, mergeVars, taVars, rcVars, scriptVars >>

\* A call of PatternMatcher.getFirstMatch
GetFirstMatch ==
    \E t \in PatternTexts : \E name \in QueriedNames :
        \E r \in { getFirstMatch(pmPatterns, t, name) } :
           /\ pmPatterns' = r.patterns
           /\ pmOut' = r.result
           /\ pmText' = t
           /\ pmCall' = [ method |-> "getFirstMatch", name |-> name,
                          throwing |-> {} ]
           /\ UNCHANGED << pipeVars, cxVars, mergeVars, taVars, rcVars, scriptVars >>

\* A call of PatternMatcher.hasPattern
HasPattern ==
    \E t \in PatternTexts : \E name \in QueriedNames :
        \E r \in { hasPattern(pmPatterns, t, name) } :
           /\ pmPatterns' = r.patterns
           /\ pmOut' = r.result
           /\ pmText' = t
           /\ pmCall' = [ method |-> "hasPattern", name |-> name,
                          throwing |-> {} ]
           /\ UNCHANGED << pipeVars, cxVars, mergeVars, taVars, rcVars, scriptVars >>

\* The clauses of the texts given to analyzeText: those the type, the
\* activation, the damage list and the condition list depend on
AnalyzeClauses ==
    { "react", "pad43", "pad44", "rech", "mwak", "bonus", "act", "rsak",
      "dmgS", "heal", "dup", "save", "prone", "ongo", "ongoF", "dazed",
      "conf", "bleed", "adv", "dis" }

InitAnalyze ==
    /\ PipelineIdle
    /\ cxIn = Null /\ cxOut = 0
    /\ mSources = << >> /\ mPos = 0 /\ mResult = EmptyFlags
    /\ pmPatterns = initializePatterns
    /\ pmText = {} /\ pmCall = Null /\ pmOut = Null
    /\ taText \in { t \in SUBSET AnalyzeClauses : Cardinality(t) <= MaxClauses }
    /\ taOut = Null
    /\ rcText = {} /\ rcOut = Null
    /\ ScriptsIdle

\* A call of TextAnalyzer.analyzeText
AnalyzeText ==
    /\ taOut = Null
    /\ taOut' = analyzeText(taText)
    /\ UNCHANGED << taText, pipeVars, cxVars, mergeVars, pmVars, rcVars, scriptVars >>

SpecAnalyze == InitAnalyze /\ [][AnalyzeText]_vars

\* The clauses of the texts given to generateRechargeSystem
RechargeClauses == { "rech", "rech6", "lim", "limS", "cond", "mwak", "save" }

InitRecharge ==
    /\ PipelineIdle
    /\ cxIn = Null /\ cxOut = 0
    /\ mSources = << >> /\ mPos = 0 /\ mResult = EmptyFlags
    /\ pmPatterns = initializePatterns
    /\ pmText = {} /\ pmCall = Null /\ pmOut = Null
    /\ taText = {} /\ taOut = Null
    /\ rcText \in { t \in SUBSET RechargeClauses : Cardinality(t) <= MaxClauses }
    /\ rcOut = Null
    /\ ScriptsIdle

\* A call of RechargeAutomation.generateRechargeSystem
GenerateRechargeSystem ==
    /\ rcOut = Null
    /\ rcOut' = generateRechargeSystem([ raw |-> rcText ])
    /\ UNCHANGED << rcText, pipeVars, cxVars, mergeVars, pmVars, taVars, scriptVars >>

SpecRecharge == InitRecharge /\ [][GenerateRechargeSystem]_vars

-----------------------------------------------------------------------------
(* MovementAttackIntegration.applyMovementAttackIntegration, which the      *)
(* converter does not call                                                   *)

\* MovementAttackIntegration.applyMovementAttackIntegration: the item it
\* returns, which is the item it was given, written to
applyMovementAttackIntegration(foundryItem, ability) ==
    LET movementData == analyzeMovementAttackPattern(ability)
    IN IF movementData = Null THEN foundryItem
       ELSE [ foundryItem EXCEPT
                !.system =
                    ("target" :> [ value |-> 1, width |-> Null, units |-> "",
                                   type |-> "space" ])
                    @@ ("range" :> [ value |-> movementData.templateConfig.maxRange,
                                     long |-> Null, units |-> "ft" ])
                    @@ ("activation" :>
                           [ type |-> "action", cost |-> 1,
                             condition |-> movementData.integratedActivation.description ])
                    @@ foundryItem.system,
                !.flags = spread(foundryItem.flags, movementData.flags) ]

\* The clauses of the texts given to applyMovementAttackIntegration
MovementClauses ==
    { "rech", "rech46", "cond", "see", "mwak", "save", "leap", "hitrun", "flyby",
      "charge", "hulk" }

\* The call is made on a parsed ability and the item of its base conversion
InitMovement ==
    /\ PipelineIdle
    /\ cxIn = Null /\ cxOut = 0
    /\ mSources = << >> /\ mPos = 0 /\ mResult = EmptyFlags
    /\ pmPatterns = initializePatterns
    /\ pmText = {} /\ pmCall = Null /\ pmOut = Null
    /\ taText = {} /\ taOut = Null
    /\ rcText = {} /\ rcOut = Null
    /\ OngoingIdle
    /\ mvText \in { t \in SUBSET MovementClauses : Cardinality(t) <= MaxClauses }
    /\ mvItem = LET ability == analyzeText(mvText)
                IN baseSuccess(ability, generateAutomation(ability, 1, 0)).foundryItem
    /\ mvOut = Null

\* A call of MovementAttackIntegration.applyMovementAttackIntegration
ApplyMovementAttackIntegration ==
    /\ mvOut = Null
    /\ LET item == applyMovementAttackIntegration(mvItem, analyzeText(mvText))
       IN mvItem' = item /\ mvOut' = item
    /\ UNCHANGED << mvText, pipeVars, cxVars, mergeVars, pmVars, taVars, rcVars,
                    ogVars, callVars, rxVars, rrVars >>

SpecMovement == InitMovement /\ [][ApplyMovementAttackIntegration]_vars

-----------------------------------------------------------------------------
(* The generated ongoing-effect scripts, run on an actor *)

\* The clauses of the texts given to generateOngoingSystem
OngoingClauses == { "hold", "ongo", "ongoU", "ongoG", "regen", "rsave", "save" }

\* The actor a script runs on: its statuses, its hit points against their
\* maximum, whether it still carries the parent condition (grappled), and
\* whether the save it rolls reaches the DC
OngoingTargets ==
    [ unconscious : BOOLEAN, fullHp : BOOLEAN, parentPresent : BOOLEAN ]

\* What a script gets from the game besides its actor: whether the module
\* midi-qol is active, whether the token is controlled or owned by the
\* user, whether the actor carries an ongoing effect of the ability (what
\* actor.effects.find of the save script returns), and whether the save
\* rolled reaches the DC
OngoingGames ==
    [ midi : BOOLEAN, owner : BOOLEAN, carries : BOOLEAN, saveSuccessful : BOOLEAN ]

\* No script reads the game before its first wait: its first stretch is made
\* of the checks of args[0] and of the actor
UnreadGame == CHOOSE game \in OngoingGames : TRUE

\* args[0] of a script: the string "on" (on), or an object that may hold
\* macroPass, actor, token and effect.  Destructuring the string gives no
\* actor, token or effect.  The generated turn hooks call macro.execute with
\* the actor, its token if it has one, and the effect they found, and with
\* no macroPass; a module that passes macroPass passes the actor and may
\* pass the token and the effect.
OngoingContexts ==
    { c \in [ on : BOOLEAN, macroPass : BOOLEAN, actor : BOOLEAN,
              token : BOOLEAN, effect : BOOLEAN ] :
        /\ c.on => ~(c.macroPass \/ c.actor \/ c.token \/ c.effect)
        /\ ~c.on => c.actor
        /\ (~c.on /\ ~c.macroPass) => c.effect }

\* A run of a generated script (the text generateOngoingDamageMacro,
\* generateOngoingHealingMacro or generateOngoingSaveMacro returned) on an
\* actor, from its start or from the wait it was left at to its next wait
\* or its end: the steps in order, a return stopping the run.  At a wait pc
\* names the call waited for and rest holds the steps still to take.
\* args is args[0] of the run: the script returns at once when it is neither
\* "on" nor holds macroPass, or when it holds no actor or no token, and an
\* end-condition check deletes the effect only if args[0] holds one.
\* ended is TRUE once the effect is deleted, applied once the damage or the
\* healing is applied (the workflow is made, the hit points are written),
\* saved when the save rolled reached the DC, tinted once the token carries
\* the tint of the healing, failed when the catch of the script ran
\* (ui.notifications.error).
RECURSIVE runOngoingMacro(_, _, _, _)
runOngoingMacro(steps, target, game, run) ==
    IF steps = << >> THEN [ run EXCEPT !.pc = "done" ]
    ELSE LET step == Head(steps)
             rest == Tail(steps)
             deleting == IF run.args.effect
                         THEN [ run EXCEPT !.pc = "deleting", !.rest = << "return" >> ]
                         ELSE [ run EXCEPT !.pc = "done" ]
         IN CASE step = "comment" -> runOngoingMacro(rest, target, game, run)
              [] step = "check_context" ->
                    IF ~run.args.on /\ ~run.args.macroPass
                    THEN [ run EXCEPT !.pc = "done" ]
                    ELSE runOngoingMacro(rest, target, game, run)
              [] step = "check_actor_token" ->
                    IF ~run.args.actor \/ ~run.args.token
                    THEN [ run EXCEPT !.pc = "done" ]
                    ELSE runOngoingMacro(rest, target, game, run)
              [] step = "end_if_parent_gone" ->
                    IF ~target.parentPresent THEN deleting
                    ELSE runOngoingMacro(rest, target, game, run)
              [] step = "end_if_unconscious" ->
                    IF target.unconscious THEN deleting
                    ELSE runOngoingMacro(rest, target, game, run)
              [] step = "end_if_full_hp" ->
                    IF target.fullHp THEN deleting
                    ELSE runOngoingMacro(rest, target, game, run)
              [] step = "return_if_full_hp" ->
                    IF target.fullHp THEN [ run EXCEPT !.pc = "done" ]
                    ELSE runOngoingMacro(rest, target, game, run)
              [] step = "return" -> [ run EXCEPT !.pc = "done" ]
              [] step = "await_roll" -> [ run EXCEPT !.pc = "rolling", !.rest = rest ]
              [] step = "await_save" -> [ run EXCEPT !.pc = "saving", !.rest = rest ]
              [] step = "await_message" ->
                    [ run EXCEPT !.pc = "messaging", !.rest = rest ]
              [] step = "apply_damage" ->
                    IF game.midi
                    THEN IF run.args.effect
                         THEN [ run EXCEPT !.pc = "workflow", !.rest = rest,
                                           !.applied = TRUE ]
                         ELSE [ run EXCEPT !.pc = "done", !.failed = TRUE ]
                    ELSE [ run EXCEPT !.pc = "updating", !.rest = rest ]
              [] step = "apply_healing" ->
                    [ run EXCEPT !.pc = "updating", !.rest = rest ]
              [] step = "tint_token" ->
                    IF game.owner THEN [ run EXCEPT !.pc = "tinting", !.rest = rest ]
                    ELSE runOngoingMacro(rest, target, game, run)
              [] step = "end_if_save_succeeded" ->
                    IF run.saved /\ game.carries
                    THEN [ run EXCEPT !.pc = "deleting", !.rest = rest ]
                    ELSE runOngoingMacro(rest, target, game, run)
              [] step = "throw" -> [ run EXCEPT !.pc = "done", !.failed = TRUE ]

\* The call a run waits for is made: what it leaves in the run.  The save
\* rolled is compared with the DC, actor.update has written the hit points,
\* effect.delete() has deleted the effect, token.document.update has added
\* the tint to the effects of the token.
resolveOngoingWait(run, game) ==
    CASE run.pc = "saving" -> [ run EXCEPT !.saved = game.saveSuccessful ]
      [] run.pc = "updating" -> [ run EXCEPT !.applied = TRUE ]
      [] run.pc = "deleting" -> [ run EXCEPT !.ended = TRUE ]
      [] run.pc = "tinting" -> [ run EXCEPT !.tinted = TRUE ]
      [] OTHER -> run

\* A run goes on from its wait, on the actor as it is then
resumeOngoingMacro(run, target, game) ==
    runOngoingMacro(run.rest, target, game,
                    [ resolveOngoingWait(run, game) EXCEPT !.pc = "running",
                                                             !.rest = << >> ])

\* A run at its start, called with args[0] = args
NewOngoingRun(args) ==
    [ pc |-> "running", rest |-> << >>, args |-> args, ended |-> FALSE,
      applied |-> FALSE, saved |-> FALSE, tinted |-> FALSE, failed |-> FALSE ]

InitOngoing ==
    /\ PipelineIdle
    /\ cxIn = Null /\ cxOut = 0
    /\ mSources = << >> /\ mPos = 0 /\ mResult = EmptyFlags
    /\ pmPatterns = initializePatterns
    /\ pmText = {} /\ pmCall = Null /\ pmOut = Null
    /\ taText = {} /\ taOut = Null
    /\ rcText = {} /\ rcOut = Null
    /\ ogText \in { t \in SUBSET OngoingClauses : Cardinality(t) <= MaxClauses }
    /\ ogOut = Null
    /\ ogTarget \in OngoingTargets
    /\ ogRun = Null
    /\ MovementIdle

\* A call of OngoingEffectsTracking.generateOngoingSystem
GenerateOngoingSystem ==
    /\ ogOut = Null
    /\ ogOut' = generateOngoingSystem([ raw |-> ogText ], seed, 0)
    /\ UNCHANGED << ogText, ogTarget, ogRun, pipeVars, cxVars, mergeVars, pmVars,
                    taVars, rcVars, callVars, rxVars, rrVars, mvVars >>

\* One of the generated scripts is started on the actor, by the turn hook or
\* by a module that passes macroPass, and runs to its first wait or to its
\* end.  target is the actor as the script's checks read it.
RunOngoingMacro ==
    /\ ogOut # Null
    /\ IF ogRun = Null THEN TRUE ELSE ogRun.outcome.pc = "done"
    /\ \E i \in DOMAIN ogOut.macroContents, args \in OngoingContexts :
          ogRun' = [ macro |-> ogOut.macroContents[i].name,
                     ongoing |-> ogOut.macroContents[i].ongoing,
                     target |-> ogTarget,
                     outcome |-> runOngoingMacro(ogOut.macroContents[i].content,
                                                 ogTarget, UnreadGame,
                                                 NewOngoingRun(args)) ]
    /\ UNCHANGED << ogText, ogOut, ogTarget, pipeVars, cxVars, mergeVars, pmVars,
                    taVars, rcVars, callVars, rxVars, rrVars, mvVars >>

\* The roll or the save the script waits for is there: the script posts
\* its chat message and waits for it
OngoingRollResolved ==
    /\ ogRun # Null
    /\ ogRun.outcome.pc \in { "rolling", "saving" }
    /\ \E game \in OngoingGames :
          ogRun' = [ ogRun EXCEPT
                       !.outcome = resumeOngoingMacro(ogRun.outcome, ogTarget, game) ]
    /\ UNCHANGED << ogText, ogOut, ogTarget, pipeVars, cxVars, mergeVars, pmVars,
                    taVars, rcVars, callVars, rxVars, rrVars, mvVars >>

\* The chat message is posted.  The damage script makes the damage workflow
\* of midi-qol or, without the module, reads the hit points and calls
\* actor.update; the healing script calls actor.update with the hit points
\* it read before its roll; the save script deletes the effect when the
\* save succeeded and else runs into its last call.
OngoingMessagePosted ==
    /\ ogRun # Null
    /\ ogRun.outcome.pc = "messaging"
    /\ \E game \in OngoingGames :
          ogRun' = [ ogRun EXCEPT
                       !.outcome = resumeOngoingMacro(ogRun.outcome, ogTarget, game) ]
    /\ UNCHANGED << ogText, ogOut, ogTarget, pipeVars, cxVars, mergeVars, pmVars,
                    taVars, rcVars, callVars, rxVars, rrVars, mvVars >>

\* The wait for the damage workflow is over; what the workflow does to the
\* actor is the module's
OngoingWorkflowResolved ==
    /\ ogRun # Null
    /\ ogRun.outcome.pc = "workflow"
    /\ \E game \in OngoingGames :
          ogRun' = [ ogRun EXCEPT
                       !.outcome = resumeOngoingMacro(ogRun.outcome, ogTarget, game) ]
    /\ UNCHANGED << ogText, ogOut, ogTarget, pipeVars, cxVars, mergeVars, pmVars,
                    taVars, rcVars, callVars, rxVars, rrVars, mvVars >>

\* actor.update is made: the hit points the script computed are written,
\* below the maximum after damage (the roll is at least 1), at the maximum
\* or below it after healing
OngoingHitPointsUpdated ==
    /\ ogRun # Null
    /\ ogRun.outcome.pc = "updating"
    /\ \E game \in OngoingGames, full \in BOOLEAN :
          /\ ogRun' = [ ogRun EXCEPT
                          !.outcome = resumeOngoingMacro(ogRun.outcome, ogTarget, game) ]
          /\ ogTarget' = [ ogTarget EXCEPT
                             !.fullHp = IF ogRun.macro = "OngoingDamage" THEN FALSE
                                        ELSE full ]
    /\ UNCHANGED << ogText, ogOut, pipeVars, cxVars, mergeVars, pmVars,
                    taVars, rcVars, callVars, rxVars, rrVars, mvVars >>

\* token.document.update of the healing script is made
OngoingTokenTinted ==
    /\ ogRun # Null
    /\ ogRun.outcome.pc = "tinting"
    /\ \E game \in OngoingGames :
          ogRun' = [ ogRun EXCEPT
                       !.outcome = resumeOngoingMacro(ogRun.outcome, ogTarget, game) ]
    /\ UNCHANGED << ogText, ogOut, ogTarget, pipeVars, cxVars, mergeVars, pmVars,
                    taVars, rcVars, callVars, rxVars, rrVars, mvVars >>

\* effect.delete() is made: the effect is gone, and the script returns
\* (after an end-condition check) or goes on to its last call (after a
\* successful save)
OngoingEffectDeleted ==
    /\ ogRun # Null
    /\ ogRun.outcome.pc = "deleting"
    /\ \E game \in OngoingGames :
          ogRun' = [ ogRun EXCEPT
                       !.outcome = resumeOngoingMacro(ogRun.outcome, ogTarget, game) ]
    /\ UNCHANGED << ogText, ogOut, ogTarget, pipeVars, cxVars, mergeVars, pmVars,
                    taVars, rcVars, callVars, rxVars, rrVars, mvVars >>

\* Another callback of the game changes the actor: a condition is applied
\* or removed, its hit points change.  It can run while a script waits.
ActorChanges ==
    /\ ogOut # Null
    /\ ogTarget' \in OngoingTargets \ { ogTarget }
    /\ UNCHANGED << ogText, ogOut, ogRun, pipeVars, cxVars, mergeVars, pmVars,
                    taVars, rcVars, callVars, rxVars, rrVars, mvVars >>

NextOngoing ==
    \/ GenerateOngoingSystem \/ RunOngoingMacro
    \/ OngoingRollResolved \/ OngoingMessagePosted \/ OngoingWorkflowResolved
    \/ OngoingHitPointsUpdated \/ OngoingTokenTinted \/ OngoingEffectDeleted
    \/ ActorChanges

SpecOngoing == InitOngoing /\ [][NextOngoing]_vars

-----------------------------------------------------------------------------
(* The scripts generated for a reaction ability, run in a combat.  The      *)
(* trigger script is asynchronous: it waits for the dialog and for the use  *)
(* of the item, and other runs and hooks take their steps while it waits.   *)
(* Each action is the code of a script between two of its waits.            *)

\* The trigger script from its start to the dialog: the context is valid,
\* the flag reactionUsedThisRound is read, and the trigger, range and
\* condition validations pass or return
ReactionTrigger ==
    \E r \in Runs, a \in Actors, valid \in BOOLEAN :
        /\ rxRuns[r].pc = "idle"
        /\ rxRuns' = [ rxRuns EXCEPT ![r] =
              [ pc |-> IF rxUsed[a] THEN "rejected"
                       ELSE IF valid THEN "prompt" ELSE "not_triggered",
                actor |-> a, seen |-> rxUsed[a], round |-> 0 ] ]
        /\ rxValid' = Null /\ rxQueueOut' = Null
        /\ UNCHANGED << rxUsed, rxRound, rxQueue, rxLoops >>
        /\ UNCHANGED << pipeVars, cxVars, mergeVars, pmVars, taVars, rcVars,
                        ogVars, callVars, rrVars, mvVars >>

\* The dialog is answered: declined, or confirmed, and executeReaction
\* calls actor.setFlag("automancy", "reactionUsedThisRound", true) and
\* waits for it
ReactionDialog ==
    \E r \in Runs, confirmed \in BOOLEAN :
        /\ rxRuns[r].pc = "prompt"
        /\ rxRuns' = [ rxRuns EXCEPT ![r].pc = IF confirmed THEN "marking"
                                                ELSE "declined" ]
        /\ rxValid' = Null /\ rxQueueOut' = Null
        /\ UNCHANGED << rxUsed, rxRound, rxQueue, rxLoops >>
        /\ UNCHANGED << pipeVars, cxVars, mergeVars, pmVars, taVars, rcVars,
                        ogVars, callVars, rrVars, mvVars >>

\* The flag is set and executeReaction goes on: it reads game.combat.round
\* for lastReactionUsed, calls setFlag for it and waits again
ReactionMarked ==
    \E r \in Runs :
        /\ rxRuns[r].pc = "marking"
        /\ rxUsed' = [ rxUsed EXCEPT ![rxRuns[r].actor] = TRUE ]
        /\ rxRuns' = [ rxRuns EXCEPT ![r].pc = "recording", ![r].round = rxRound ]
        /\ rxValid' = Null /\ rxQueueOut' = Null
        /\ UNCHANGED << rxRound, rxQueue, rxLoops >>
        /\ UNCHANGED << pipeVars, cxVars, mergeVars, pmVars, taVars, rcVars,
                        ogVars, callVars, rrVars, mvVars >>

\* lastReactionUsed is recorded and executeReaction looks for the reaction
\* item among the items of the actor: it calls the use of the item and
\* waits for it, or, the item not found, throws, and its catch calls
\* actor.unsetFlag for the flag and waits for that
ReactionRecorded ==
    \E r \in Runs, found \in BOOLEAN :
        /\ rxRuns[r].pc = "recording"
        /\ rxRuns' = [ rxRuns EXCEPT ![r].pc = IF found THEN "using"
                                                ELSE "unsetting" ]
        /\ rxValid' = Null /\ rxQueueOut' = Null
        /\ UNCHANGED << rxUsed, rxRound, rxQueue, rxLoops >>
        /\ UNCHANGED << pipeVars, cxVars, mergeVars, pmVars, taVars, rcVars,
                        ogVars, callVars, rrVars, mvVars >>

\* The use of the reaction item ends: the reaction has executed, or the use
\* threw and the catch calls actor.unsetFlag for the flag and waits for it
ReactionItemUse ==
    \E r \in Runs, ok \in BOOLEAN :
        /\ rxRuns[r].pc = "using"
        /\ rxRuns' = [ rxRuns EXCEPT ![r].pc = IF ok THEN "executed" ELSE "unsetting" ]
        /\ rxValid' = Null /\ rxQueueOut' = Null
        /\ UNCHANGED << rxUsed, rxRound, rxQueue, rxLoops >>
        /\ UNCHANGED << pipeVars, cxVars, mergeVars, pmVars, taVars, rcVars,
                        ogVars, callVars, rrVars, mvVars >>

\* The flag is unset after a failed use
ReactionUnset ==
    \E r \in Runs :
        /\ rxRuns[r].pc = "unsetting"
        /\ rxUsed' = [ rxUsed EXCEPT ![rxRuns[r].actor] = FALSE ]
        /\ rxRuns' = [ rxRuns EXCEPT ![r].pc = "failed" ]
        /\ rxValid' = Null /\ rxQueueOut' = Null
        /\ UNCHANGED << rxRound, rxQueue, rxLoops >>
        /\ UNCHANGED << pipeVars, cxVars, mergeVars, pmVars, taVars, rcVars,
                        ogVars, callVars, rrVars, mvVars >>

\* combat.combatants, in the order the reset loops visit them
Combatants == << "owlbear", "goblin" >>

\* A round starts: game.combat.round changes and the global hook on
\* combatRound starts its loop over the combatants.  The loop waits twice
\* for each combatant: for unsetFlag of reactionUsedThisRound and for
\* unsetFlag of a second flag.  A loop is held as the number of the wait it
\* is at.
CombatRound ==
    /\ rxRound < MaxRounds
    /\ rxRound' = rxRound + 1
    /\ rxLoops' = Append(rxLoops, 1)
    /\ rxValid' = Null /\ rxQueueOut' = Null
    /\ UNCHANGED << rxUsed, rxRuns, rxQueue >>
    /\ UNCHANGED << pipeVars, cxVars, mergeVars, pmVars, taVars, rcVars,
                    ogVars, callVars, rrVars, mvVars >>

\* ReactionReset.resetForNewRound: the same loop, started by a call
ResetForNewRound ==
    /\ Len(rxLoops) < MaxResets
    /\ rxLoops' = Append(rxLoops, 1)
    /\ rxValid' = Null /\ rxQueueOut' = Null
    /\ UNCHANGED << rxUsed, rxRound, rxRuns, rxQueue >>
    /\ UNCHANGED << pipeVars, cxVars, mergeVars, pmVars, taVars, rcVars,
                    ogVars, callVars, rrVars, mvVars >>

\* A wait of a reset loop ends.  The first wait of a combatant unsets its
\* flag reactionUsedThisRound; the second unsets reactionUsedIndicator (the
\* hook) or damageTakenThisTurn (resetForNewRound).  After the last wait the
\* loop is over.
ResetLoopStep ==
    \E i \in DOMAIN rxLoops :
        LET wait == rxLoops[i]
            combatant == Combatants[(wait + 1) \div 2]
        IN /\ rxUsed' = IF wait % 2 = 1
                         THEN [ rxUsed EXCEPT ![combatant] = FALSE ]
                         ELSE rxUsed
           /\ rxLoops' = IF wait = 2 * Len(Combatants)
                          THEN SubSeq(rxLoops, 1, i - 1)
                               \o SubSeq(rxLoops, i + 1, Len(rxLoops))
                          ELSE [ rxLoops EXCEPT ![i] = wait + 1 ]
           /\ rxValid' = Null /\ rxQueueOut' = Null
           /\ UNCHANGED << rxRound, rxRuns, rxQueue >>
           /\ UNCHANGED << pipeVars, cxVars, mergeVars, pmVars, taVars, rcVars,
                           ogVars, callVars, rrVars, mvVars >>

\* ReactionReset.resetActorReaction: the flag of one actor is unset
ResetActorReaction ==
    \E a \in Actors :
        /\ rxUsed' = [ rxUsed EXCEPT ![a] = FALSE ]
        /\ rxValid' = Null /\ rxQueueOut' = Null
        /\ UNCHANGED << rxRound, rxRuns, rxQueue, rxLoops >>
        /\ UNCHANGED << pipeVars, cxVars, mergeVars, pmVars, taVars, rcVars,
                        ogVars, callVars, rrVars, mvVars >>

\* ReactionReset.consumeReaction, and the consumption script (postItemRoll
\* of the reaction item, however the item came to be used): the flag of an
\* actor is set without a run of the trigger script
ConsumeReaction ==
    \E a \in Actors :
        /\ rxUsed' = [ rxUsed EXCEPT ![a] = TRUE ]
        /\ rxValid' = Null /\ rxQueueOut' = Null
        /\ UNCHANGED << rxRound, rxRuns, rxQueue, rxLoops >>
        /\ UNCHANGED << pipeVars, cxVars, mergeVars, pmVars, taVars, rcVars,
                        ogVars, callVars, rrVars, mvVars >>

\* The validation script's validateReactionUse: not valid when the flag is
\* set, or when the actor is incapacitated, unconscious, without the
\* resource or without the damage the ability requires
ValidateReactionUse ==
    \E a \in Actors, able \in BOOLEAN :
        /\ rxValid' = [ actor |-> a, used |-> rxUsed[a],
                        valid |-> ~rxUsed[a] /\ able ]
        /\ rxQueueOut' = Null
        /\ UNCHANGED << rxUsed, rxRound, rxRuns, rxQueue, rxLoops >>
        /\ UNCHANGED << pipeVars, cxVars, mergeVars, pmVars, taVars, rcVars,
                        ogVars, callVars, rrVars, mvVars >>

\* ReactionPriority.priorities
reactionPriorities(triggerType) ==
    CASE triggerType = "damage_taken" -> 100
      [] triggerType = "being_attacked" -> 90
      [] triggerType = "spell_cast" -> 85
      [] triggerType = "target_moves" -> 80
      [] triggerType = "opportunity_attack" -> 70
      [] OTHER -> 50

\* ReactionPriority.getReactionQueue: game.settings.get("automancy",
\* "reactionQueue") || [], a setting with no value reads as the empty list
getReactionQueue(setting) ==
    IF setting.set THEN setting.value ELSE << >>

\* ReactionPriority.setReactionQueue: game.settings.set("automancy",
\* "reactionQueue", queue)
setReactionQueue(queue) ==
    [ set |-> TRUE, value |-> queue ]

\* ReactionPriority.clearReactionQueue: game.settings.set("automancy",
\* "reactionQueue", [])
clearReactionQueue ==
    setReactionQueue(<< >>)

\* queue.sort((a, b) => b.priority - a.priority): the entries by priority,
\* highest first, entries of one priority in the order they had
RECURSIVE sortByPriority(_)
sortByPriority(queue) ==
    IF queue = << >> THEN << >>
    ELSE LET top == CHOOSE n \in { queue[i].priority : i \in DOMAIN queue } :
                       \A i \in DOMAIN queue : queue[i].priority <= n
             IsTop(e) == e.priority = top
             IsLower(e) == e.priority # top
         IN SelectSeq(queue, IsTop) \o sortByPriority(SelectSeq(queue, IsLower))

\* The entries a queue can hold, and the queues of up to MaxQueue entries
QueueEntries ==
    [ actor : Actors,
      priority : { reactionPriorities(t) : t \in { "damage_taken", "opportunity_attack" } } ]

Queues == UNION { [ 1 .. n -> QueueEntries ] : n \in 0 .. MaxQueue }

\* ReactionPriority.queueReaction: the queue is read from the setting, the
\* entry is pushed, the queue is sorted by priority and written back to the
\* setting
QueueReaction ==
    \E a \in Actors, triggerType \in { "damage_taken", "opportunity_attack" } :
        /\ Len(getReactionQueue(rxQueue)) < MaxQueue
        /\ LET queue == getReactionQueue(rxQueue)
               e == [ actor |-> a, priority |-> reactionPriorities(triggerType) ]
           IN rxQueue' = setReactionQueue(sortByPriority(Append(queue, e)))
        /\ rxValid' = Null /\ rxQueueOut' = Null
        /\ UNCHANGED << rxUsed, rxRound, rxRuns, rxLoops >>
        /\ UNCHANGED << pipeVars, cxVars, mergeVars, pmVars, taVars, rcVars,
                        ogVars, callVars, rrVars, mvVars >>

\* window.automancyReactions.setReactionQueue(queue) called on its own: the
\* setting holds the queue as given, sorted or not
SetReactionQueue ==
    \E queue \in Queues :
        /\ rxQueue' = setReactionQueue(queue)
        /\ rxValid' = Null /\ rxQueueOut' = Null
        /\ UNCHANGED << rxUsed, rxRound, rxRuns, rxLoops >>
        /\ UNCHANGED << pipeVars, cxVars, mergeVars, pmVars, taVars, rcVars,
                        ogVars, callVars, rrVars, mvVars >>

\* window.automancyReactions.clearReactionQueue() called on its own
ClearReactionQueue ==
    /\ rxQueue' = clearReactionQueue
    /\ rxValid' = Null /\ rxQueueOut' = Null
    /\ UNCHANGED << rxUsed, rxRound, rxRuns, rxLoops >>
    /\ UNCHANGED << pipeVars, cxVars, mergeVars, pmVars, taVars, rcVars,
                    ogVars, callVars, rrVars, mvVars >>

\* ReactionPriority.processQueue: the queue is read from the setting; an
\* empty queue returns at once.  The entries of actors whose flag is set are
\* skipped.  The first other entry is handed to executeQueuedReaction, which
\* no generated script defines: the call throws a TypeError and
\* clearReactionQueue is not reached.  With every entry skipped the loop
\* ends and clearReactionQueue writes the empty list to the setting.
ProcessQueue ==
    /\ LET queue == getReactionQueue(rxQueue)
           open == { i \in DOMAIN queue : ~rxUsed[queue[i].actor] }
           first == CHOOSE i \in open : \A j \in open : i <= j
       IN IF queue = << >>
          THEN /\ rxQueueOut' = [ error |-> "", actor |-> "none", used |-> FALSE,
                                  cleared |-> FALSE ]
               /\ UNCHANGED rxQueue
          ELSE IF open = {}
          THEN /\ rxQueue' = clearReactionQueue
               /\ rxQueueOut' = [ error |-> "", actor |-> "none", used |-> FALSE,
                                  cleared |-> TRUE ]
          ELSE /\ rxQueueOut' = [ error |-> "TypeError",
                                  actor |-> queue[first].actor,
                                  used |-> rxUsed[queue[first].actor],
                                  cleared |-> FALSE ]
               /\ UNCHANGED rxQueue
    /\ rxValid' = Null
    /\ UNCHANGED << rxUsed, rxRound, rxRuns, rxLoops >>
    /\ UNCHANGED << pipeVars, cxVars, mergeVars, pmVars, taVars, rcVars,
                    ogVars, callVars, rrVars, mvVars >>

\* The converter is not called; the combat is in its first round
InitReaction ==
    /\ PipelineIdle
    /\ cxIn = Null /\ cxOut = 0
    /\ mSources = << >> /\ mPos = 0 /\ mResult = EmptyFlags
    /\ PatternsIdle

\* The trigger script, the validation and the ways the flag is set and unset
NextReaction ==
    \/ ReactionTrigger \/ ReactionDialog \/ ReactionMarked \/ ReactionRecorded
    \/ ReactionItemUse \/ ReactionUnset
    \/ CombatRound \/ ResetForNewRound \/ ResetLoopStep
    \/ ResetActorReaction \/ ConsumeReaction
    \/ ValidateReactionUse

SpecReaction == InitReaction /\ [][NextReaction]_vars

\* The reaction queue, with the flags set and unset as any of the scripts
\* may leave them
NextReactionQueue ==
    \/ QueueReaction \/ ProcessQueue \/ ClearReactionQueue \/ SetReactionQueue
    \/ CombatRound \/ ResetLoopStep \/ ResetActorReaction \/ ConsumeReaction

SpecReactionQueue == InitReaction /\ [][NextReactionQueue]_vars

-----------------------------------------------------------------------------
(* The scripts generated for an ability with a fixed recharge threshold,    *)
(* run on the converted item once it is in the game.                        *)

\* RechargeAutomation.generateUsageLogic: what the usage script does to the
\* item
generateUsageLogic(rechargeData) ==
    IF rechargeData.type = "standard"
    THEN [ op |-> "set_charged", charged |-> FALSE ]
    ELSE IF rechargeData.type = "limited_use"
    THEN [ op |-> "consume_use" ]
    ELSE [ op |-> "comment" ]

\* RechargeAutomation.generateRechargeRollMacroContent: the script compares
\* the roll with minRoll only; maxRoll is not written into it
generateRechargeRollMacroContent(rechargeData) ==
    [ minRoll |-> rechargeData.minRoll ]

\* item.system.recharge?.charged read as a condition: undefined is false
isCharged(system) ==
    "recharge" \in DOMAIN system /\ system["recharge"].charged

\* item.update({"system.recharge.charged": charged}): the document update
\* of the game expands the dotted key and merges it into system.recharge
updateCharged(system, charged) ==
    IF "recharge" \in DOMAIN system
    THEN [ system EXCEPT !["recharge"] = [ @ EXCEPT !.charged = charged ] ]
    ELSE ("recharge" :> [ charged |-> charged ]) @@ system

\* The item of an enhanced conversion with a fixed recharge threshold is
\* created in the game from result.foundryItem
CreateItem ==
    /\ pc = "done" /\ result.success /\ result.phase2Enhancement.applied
    /\ systems.rechargeSystem.hasRecharge
    /\ systems.rechargeSystem.rechargeData.type = "standard"
    /\ rrItem = Null
    /\ rrItem' = result.foundryItem.system
    /\ UNCHANGED << rrLast, rrRuns, pipeVars, cxVars, mergeVars, pmVars, taVars,
                    rcVars, ogVars, callVars, rxVars, mvVars >>

\* The item is used and the usage tracking script runs (postItemRoll): its
\* only wait is the one for item.update
UsageTrackingMacro ==
    /\ rrItem # Null
    /\ LET logic == generateUsageLogic(systems.rechargeSystem.rechargeData)
       IN /\ rrItem' = IF logic.op = "set_charged"
                        THEN updateCharged(rrItem, logic.charged)
                        ELSE rrItem
          /\ rrLast' = [ macro |-> "Usage", before |-> isCharged(rrItem), roll |-> 0 ]
    /\ UNCHANGED << rrRuns, pipeVars, cxVars, mergeVars, pmVars, taVars, rcVars,
                    ogVars, callVars, rxVars, mvVars >>

\* The sequence q without its i-th element
Without(q, i) == SubSeq(q, 1, i - 1) \o SubSeq(q, i + 1, Len(q))

\* A turn starts and the recharge roll script runs.  Its first test,
\* !game.combat?.current?.actor?.uuid === actor.uuid, compares a boolean
\* with a string and never returns.  A charged item returns before the
\* roll; otherwise the script asks for a d6 and waits for it.  Runs of the
\* script can overlap.  A run holds the threshold its roll is compared with.
RechargeRollMacro ==
    /\ rrItem # Null
    /\ IF isCharged(rrItem)
       THEN /\ rrLast' = [ macro |-> "Recharge", before |-> TRUE, roll |-> 0 ]
            /\ UNCHANGED rrRuns
       ELSE /\ Len(rrRuns) < MaxRolls
            /\ rrRuns' = Append(rrRuns,
                  [ pc |-> "rolling", roll |-> 0, macro |-> "Recharge",
                    minRoll |-> generateRechargeRollMacroContent(
                                   systems.rechargeSystem.rechargeData).minRoll ])
            /\ UNCHANGED rrLast
    /\ UNCHANGED << rrItem, pipeVars, cxVars, mergeVars, pmVars, taVars, rcVars,
                    ogVars, callVars, rxVars, mvVars >>

\* window.automancyRecharge.rollRecharge(actor, itemName, minRoll) is called
\* for the item, with the threshold of the ability or with none (the
\* default is 6): a charged item returns before the roll, otherwise the
\* function asks for a d6 and waits for it, then for the chat message, then
\* for item.update, as the roll script does
RollRecharge ==
    /\ rrItem # Null
    /\ IF isCharged(rrItem)
       THEN /\ rrLast' = [ macro |-> "rollRecharge", before |-> TRUE, roll |-> 0 ]
            /\ UNCHANGED rrRuns
       ELSE /\ Len(rrRuns) < MaxRolls
            /\ \E minRoll \in { 6, systems.rechargeSystem.rechargeData.minRoll } :
                  rrRuns' = Append(rrRuns,
                     [ pc |-> "rolling", roll |-> 0, macro |-> "rollRecharge",
                       minRoll |-> minRoll ])
            /\ UNCHANGED rrLast
    /\ UNCHANGED << rrItem, pipeVars, cxVars, mergeVars, pmVars, taVars, rcVars,
                    ogVars, callVars, rxVars, mvVars >>

\* RechargeTracker.checkConditionalRecharge is called for the item: it
\* returns false for a charged item or when the actor's flags do not meet
\* the condition, and otherwise calls item.update to charge the item and
\* waits for it
CheckConditionalRecharge ==
    /\ rrItem # Null
    /\ \E conditionMet \in BOOLEAN :
          IF ~isCharged(rrItem) /\ conditionMet
          THEN /\ Len(rrRuns) < MaxRolls
               /\ rrRuns' = Append(rrRuns,
                     [ pc |-> "updating", roll |-> 0, macro |-> "Conditional",
                       minRoll |-> 0 ])
               /\ UNCHANGED rrLast
          ELSE /\ rrLast' = [ macro |-> "Conditional", before |-> isCharged(rrItem),
                              roll |-> 0 ]
               /\ UNCHANGED rrRuns
    /\ UNCHANGED << rrItem, pipeVars, cxVars, mergeVars, pmVars, taVars, rcVars,
                    ogVars, callVars, rxVars, mvVars >>

\* The d6 of a run is there: the script posts the chat message of the roll
\* and waits for it
RechargeRollEvaluated ==
    \E i \in DOMAIN rrRuns, rollResult \in 1 .. 6 :
        /\ rrRuns[i].pc = "rolling"
        /\ rrRuns' = [ rrRuns EXCEPT ![i].pc = "posting", ![i].roll = rollResult ]
        /\ UNCHANGED << rrItem, rrLast, pipeVars, cxVars, mergeVars, pmVars, taVars,
                        rcVars, ogVars, callVars, rxVars, mvVars >>

\* The chat message is posted: when the roll is at least minRoll the script
\* calls item.update to charge the item and waits for it, otherwise the run
\* is over
RechargeRollPosted ==
    \E i \in DOMAIN rrRuns :
        /\ rrRuns[i].pc = "posting"
        /\ IF rrRuns[i].roll >= rrRuns[i].minRoll
           THEN /\ rrRuns' = [ rrRuns EXCEPT ![i].pc = "updating" ]
                /\ UNCHANGED rrLast
           ELSE /\ rrRuns' = Without(rrRuns, i)
                /\ rrLast' = [ macro |-> rrRuns[i].macro, before |-> FALSE,
                               roll |-> rrRuns[i].roll ]
        /\ UNCHANGED << rrItem, pipeVars, cxVars, mergeVars, pmVars, taVars,
                        rcVars, ogVars, callVars, rxVars, mvVars >>

\* The update of a run is made: the item is charged and the run is over
RechargeItemUpdated ==
    \E i \in DOMAIN rrRuns :
        /\ rrRuns[i].pc = "updating"
        /\ rrItem' = updateCharged(rrItem, TRUE)
        /\ rrRuns' = Without(rrRuns, i)
        /\ rrLast' = [ macro |-> rrRuns[i].macro, before |-> FALSE,
                       roll |-> rrRuns[i].roll ]
        /\ UNCHANGED << pipeVars, cxVars, mergeVars, pmVars, taVars, rcVars,
                        ogVars, callVars, rxVars, mvVars >>

NextRechargeItem ==
    \/ Next \/ CreateItem \/ UsageTrackingMacro
    \/ RechargeRollMacro \/ RollRecharge \/ CheckConditionalRecharge
    \/ RechargeRollEvaluated \/ RechargeRollPosted \/ RechargeItemUpdated

\* convertAbility called on the Bear Hug text or on the melee attack with
\* Recharge 5-6, or on an argument it rejects
InitRechargeItem ==
    /\ InitScenario
    /\ seed = 1
    /\ malformed \/ text \in { BearHugText, { "rech", "mwak" } }

\* A conversion of a text with a recharge threshold, and the recharge
\* scripts run on the item it made
SpecRechargeItem == InitRechargeItem /\ [][NextRechargeItem]_vars

NextPatterns == ExtractPatterns \/ GetFirstMatch \/ HasPattern

SpecPatterns == InitPatterns /\ [][NextPatterns]_vars

-----------------------------------------------------------------------------
(* Properties *)

Range(f) == { f[i] : i \in DOMAIN f }

\* The artifacts produced so far: the base item and the enhanced item
Artifacts ==
    (IF baseResult # Null THEN { baseResult.foundryItem } ELSE {})
    \cup (IF enhanced # Null THEN { enhanced } ELSE {})

\* The effect identifiers the activities of an item refer to
ReferencedEffectIds(item) ==
    UNION { { ref._id : ref \in Range(item.system.activities[k].effects) } :
                k \in DOMAIN item.system.activities }

\* The identifiers of the effects in the item's effect list
TopLevelEffectIds(item) == { e._id : e \in Range(item.effects) }

\* The call has returned an enhanced result
Enhanced == pc = "done" /\ result.success /\ result.phase2Enhancement.applied

\* The call has returned the fallback of a failed enhancement
FellBack == pc = "done" /\ result.success /\ ~result.phase2Enhancement.applied

\* C1: in the base item and in the enhanced item alike, every effect
\* identifier an attack or save activity refers to is the identifier of an
\* effect in the item's top-level effect list.
C1_ActivityEffectsExist ==
    \A item \in Artifacts : ReferencedEffectIds(item) \subseteq TopLevelEffectIds(item)

\* The ability has an attack and a save together with a condition and damage
AttackAndSaveWithConditionAndDamage ==
    /\ parsed # Null
    /\ parsed.type \in {"weapon_attack", "spell_attack"}
    /\ Len(parsed.saves) > 0
    /\ Len(parsed.conditions) > 0
    /\ Len(parsed.damage) > 0

\* C2: when an ability has an attack and a save with a condition and damage,
\* the save activity's damage is suppressed (onSave is "none" and its single
\* part rolls no dice) and the attack activity carries one damage part per
\* parsed damage entry, in every item produced.
C2_NoDoubleDamage ==
    AttackAndSaveWithConditionAndDamage =>
        \A item \in Artifacts :
            LET attack == item.system.activities["dnd5eactivity000"]
                save == item.system.activities["dnd5eactivity100"]
            IN /\ save.type = "save" /\ attack.type = "attack"
               /\ save.onSave = "none"
               /\ \A i \in DOMAIN save.parts :
                     save.parts[i].number = 0 /\ save.parts[i].denomination = 0
               /\ Len(attack.parts) = Len(parsed.damage)
               /\ \A i \in DOMAIN attack.parts :
                     /\ attack.parts[i].number > 0
                     /\ attack.parts[i].types = << parsed.damage[i].type >>

\* C2 witness: an enhanced result for an attack with a save, a condition
\* and damage
C2_Witness ==
    /\ Enhanced
    /\ AttackAndSaveWithConditionAndDamage
    /\ result.foundryItem.system.activities["dnd5eactivity100"].onSave = "none"

\* C3: the final complexity reported after the enhancement is at least the
\* base complexity computed by the text analyzer.
C3_ComplexityMonotone ==
    Enhanced => result.phase2Enhancement.complexity >= parsed.complexity

\* C3 witness: the enhancement raised the tier of an ability whose base
\* tier was above the lowest
C3_Witness ==
    /\ Enhanced
    /\ parsed.complexity > 1
    /\ result.phase2Enhancement.complexity > parsed.complexity

\* The base artifact of the text, computed afresh
BaseAutomation == generateAutomation(analyzeText(text), seed, 0)

\* C4: when a pass or the merge throws, the call returns a successful
\* result whose item, effects and flags are exactly those of the base
\* artifact, marked as not applied, with a non-empty reason.
C4_FallbackIsBase ==
    /\ (pc = "done" => result # Null)
    /\ (pc = "done" /\ ~malformed /\ ~result.phase2Enhancement.applied) =>
          LET base == BaseAutomation
          IN /\ result.success
             /\ result.automation = base
             /\ result.foundryItem = [ base.item EXCEPT !.effects = base.effects,
                                                        !.flags = base.flags ]
             /\ result.foundryItem.effects = base.effects
             /\ result.foundryItem.flags = base.flags
             /\ result.phase2Enhancement.reason # ""

\* C4 witness: the failure came after the merge had built an enhanced item
\* that differs from the base item
C4_Witness ==
    /\ FellBack
    /\ enhanced # Null
    /\ enhanced # result.foundryItem
    /\ Len(enhanced.effects) > Len(result.foundryItem.effects)

\* C5: when the base conversion throws, the call returns a structured
\* failure (success false, a message, no item) and no enhancement pass runs.
C5_BaseFailureIsStructured ==
    malformed =>
        /\ pc \in { "start", "done" }
        /\ systems = NoSystems /\ enhanced = Null
        /\ pc = "done" =>
              /\ result # Null
              /\ ~result.success
              /\ result.error # ""
              /\ result.foundryItem = Null
              /\ ~result.phase2Enhancement.applied

\* C5 witness: the call has returned for an argument that is not a string
C5_Witness == malformed /\ pc = "done" /\ ~result.success

\* Every effect built so far: those of the base and enhanced items and the
\* additional effects of the passes
AllEffects ==
    UNION { Range(item.effects) : item \in Artifacts }
    \cup (IF systems.conditionSystem # NotRun
          THEN Range(systems.conditionSystem.effects) ELSE {})
    \cup (IF systems.ongoingSystem # NotRun
          THEN Range(systems.ongoingSystem.effects) ELSE {})

\* C6: every effect identifier comes from the one generation step
\* (generateEffectIds); no pass draws effect identifiers of its own.
C6_SingleIdSource ==
    \A e \in AllEffects : e._id \in Range(effectIds)

\* The movement-attack pass detected an archetype
MovementDetected ==
    systems.movementAttackData # NotRun /\ systems.movementAttackData # Null

\* C7: whenever the movement-attack pass detects an archetype, its flags
\* and its script appear in the merged artifact.
C7_MovementMerged ==
    (Enhanced /\ MovementDetected) =>
        LET m == systems.movementAttackData
            flags == result.foundryItem.flags
        IN /\ \A path \in DOMAIN m.flags :
                 m.flags[path] # OBJ =>
                    path \in DOMAIN flags /\ flags[path] = m.flags[path]
           /\ m.macroIntegration \in Range(result.phase2Enhancement.macros)

\* The closed form of the complexity steps for an ability
ComplexityClosedForm(ability) ==
    LET B(b) == IF b THEN 1 ELSE 0
    IN IF ability.activation.type = "reaction" THEN 4
       ELSE Min(4, 1 + B(Len(ability.conditions) > 0)
                     + B(Len(ability.damage) > 1)
                     + B(Len(ability.effects) > 1)
                     + B(Len(ability.saves) > 0 /\ Len(ability.effects) > 0)
                     + B(ability.resources.consumesResource))

\* C8: the base complexity is the result of the listed steps: it is in
\* 1..4, it is 4 for every reaction, and otherwise 1 plus one for each rule
\* that applies, clamped to 4.
C8_ComplexityTier ==
    cxOut # 0 =>
        /\ cxOut \in 1..4
        /\ cxIn.activation.type = "reaction" => cxOut = 4
        /\ cxOut = ComplexityClosedForm(cxIn)

\* C8 witness: a reaction with two effects, a save and a resource, assessed
\* at tier 4
C8_Witness ==
    /\ cxOut = 4
    /\ cxIn.activation.type = "reaction"
    /\ Len(cxIn.effects) > 1 /\ Len(cxIn.saves) > 0
    /\ cxIn.resources.consumesResource

\* Some effect of the base item carries a status
BaseHasStatus ==
    \E e \in Range(baseResult.foundryItem.effects) : Len(e.statuses) > 0

\* C9: the condition pass's effects are appended to the item's effects only
\* if no base effect carries a status; if one does, none is added; in both
\* cases the base effects come first, in order and with their identifiers.
C9_ConditionEffectGuard ==
    enhanced # Null =>
        LET base == baseResult.foundryItem.effects
            cond == systems.conditionSystem.effects
            rest == SubSeq(enhanced.effects, Len(base) + 1, Len(enhanced.effects))
        IN /\ Len(enhanced.effects) >= Len(base)
           /\ SubSeq(enhanced.effects, 1, Len(base)) = base
           /\ BaseHasStatus => Range(cond) \cap Range(rest) = {}
           /\ ~BaseHasStatus => SubSeq(rest, 1, Len(cond)) = cond

\* C9 witness: the condition pass built effects and a base effect carries a
\* status, so the merged item holds the base effects only
C9_Witness ==
    /\ Enhanced
    /\ BaseHasStatus
    /\ Len(systems.conditionSystem.effects) > 0
    /\ result.foundryItem.effects = baseResult.foundryItem.effects
    /\ Len(result.foundryItem.effects) > 0

\* The merge as the claim states it: an empty object in a source changes
\* nothing, two objects are merged key by key, otherwise the later value
\* replaces the earlier, and keys of the earlier bundle alone are kept.
RECURSIVE StatedMerge(_, _)
StatedMerge(acc, source) ==
    LET keys == ObjectKeys(acc) \cup ObjectKeys(source)
        EmptyObject(k) == IsObject(source, k) /\ Sub(source, k) = EmptyFlags
        Keep(k) == k \notin ObjectKeys(source) \/ EmptyObject(k)
        kept == { k \in keys : ~(Keep(k) /\ k \notin ObjectKeys(acc)) }
        Child(k) == IF Keep(k) THEN Sub(acc, k)
                    ELSE IF IsObject(acc, k) /\ IsObject(source, k)
                         THEN StatedMerge(Sub(acc, k), Sub(source, k))
                    ELSE Sub(source, k)
        Value(k) == IF Keep(k) THEN acc[<<k>>] ELSE source[<<k>>]
    IN [p \in { <<k>> : k \in kept }
              \cup UNION { { <<k>> \o q : q \in DOMAIN Child(k) } : k \in kept }
          |-> IF Len(p) = 1 THEN Value(p[1]) ELSE Child(p[1])[Tail(p)]]

RECURSIVE StatedMergeAll(_)
StatedMergeAll(sources) ==
    IF sources = << >> THEN EmptyFlags
    ELSE StatedMerge(StatedMergeAll(SubSeq(sources, 1, Len(sources) - 1)),
                     sources[Len(sources)])

\* C10: merging the bundles in order merges objects recursively, lets a
\* later scalar replace, never lets an empty object change the result, and
\* keeps every key only earlier sources define.
C10_DeepMerge ==
    mResult = StatedMergeAll(SubSeq(mSources, 1, mPos))

\* C11: once the base conversion has built the base item, no step changes
\* it: every pass, the merge, the return and the throw leave the base
\* result with its item, effect list and flag bundle as they were, and the
\* merged item holds no part of the base item by reference.
C11_BaseNotMutated ==
    [][ baseResult # Null =>
          /\ baseResult' = baseResult
          /\ enhanced' # Null => shared' = {} ]_vars

\* C11 witness: the merge has added effects, recharge data and flags to
\* its own item and the call has returned
C11_Witness ==
    /\ Enhanced
    /\ Len(enhanced.effects) > Len(baseResult.foundryItem.effects)
    /\ enhanced.system # baseResult.foundryItem.system
    /\ enhanced.flags # baseResult.foundryItem.flags

\* The entries of an extractPatterns result that carry the name
EntriesOf(results, name) ==
    { k \in DOMAIN results : results[k].name = name }

\* The pattern is declared repeatable (its regex has the g flag)
Repeatable(name) == name \in GlobalPatterns

\* What extract is stated to return for one pattern: every match in text
\* order for a repeatable pattern, the first match alone otherwise
StatedMatches(name, t) ==
    LET all == regexMatches(name, t)
    IN IF Repeatable(name) \/ all = << >> THEN all ELSE << Head(all) >>

\* C12: extractPatterns goes through the patterns in descending priority
\* order; a repeatable pattern gets every successive match in text order, a
\* non-repeatable pattern gets the first match of the text alone, and a
\* pattern without a match has no entry in the result.
C12_ExtractResult ==
    (pmCall # Null /\ pmCall.method = "extractPatterns" /\ pmCall.throwing = {}) =>
        /\ \A i, j \in DOMAIN pmOut :
              i < j => Priority(pmOut[i].name) >= Priority(pmOut[j].name)
        /\ \A n \in DOMAIN PatternNames :
              LET name == PatternNames[n]
                  stated == StatedMatches(name, pmText)
                  entries == EntriesOf(pmOut, name)
              IN IF stated = << >> THEN entries = {}
                 ELSE /\ Cardinality(entries) = 1
                      /\ \A k \in entries :
                            /\ pmOut[k].matches = stated
                            /\ [ m \in DOMAIN stated |-> stated[m].extracted ]
                                  = patternsGet(pmText, name)
        /\ \A k \in DOMAIN pmOut :
              \E n \in DOMAIN PatternNames : PatternNames[n] = pmOut[k].name

\* C12 witness: a result in which a repeatable pattern has two matches, a
\* non-repeatable pattern that matches twice in the text has one, and a
\* pattern registered later comes before one registered earlier
C12_Witness ==
    /\ pmCall # Null /\ pmCall.method = "extractPatterns" /\ pmCall.throwing = {}
    /\ \E k \in DOMAIN pmOut :
          pmOut[k].name = "damage_with_average" /\ Len(pmOut[k].matches) = 2
    /\ \E k \in DOMAIN pmOut :
          /\ pmOut[k].name = "activation_action" /\ Len(pmOut[k].matches) = 1
          /\ Len(regexMatches("activation_action", pmText)) = 2
    /\ \E i, j \in DOMAIN pmOut :
          /\ i < j
          /\ pmOut[i].name = "activation_bonus"
          /\ pmOut[j].name = "activation_action"

\* The matches of one result entry without those the extractor threw on
WithoutThrown(entry, throwing) ==
    SelectSeq(entry.matches, LAMBDA m : << entry.name, m.index >> \notin throwing)

\* A result without the matches the extractor threw on, and without the
\* entries this leaves empty
OmitThrown(results, throwing) ==
    LET kept == SelectSeq([ k \in DOMAIN results |-> k ],
                          LAMBDA k : WithoutThrown(results[k], throwing) # << >>)
    IN [ k \in DOMAIN kept |->
           [ name |-> results[kept[k]].name,
             matches |-> WithoutThrown(results[kept[k]], throwing) ] ]

\* C13: when an extractor throws on a match, extractPatterns still returns;
\* its result is the result of the same call without any throw, less the
\* throwing match: the other matches of that pattern and the matches of
\* every other pattern are unchanged.
C13_ThrowOmitsMatchOnly ==
    (pmCall # Null /\ pmCall.method = "extractPatterns") =>
        pmOut = OmitThrown(extractPatterns(initializePatterns, pmText, {}).results,
                           pmCall.throwing)

\* C13 witness: the extractor threw on one of two matches of a repeatable
\* pattern; the other match and another pattern's entry are in the result
C13_Witness ==
    /\ pmCall # Null /\ pmCall.method = "extractPatterns"
    /\ \E th \in pmCall.throwing :
          /\ th[1] = "damage_with_average"
          /\ Len(regexMatches("damage_with_average", pmText)) = 2
    /\ \E k \in DOMAIN pmOut :
          pmOut[k].name = "damage_with_average" /\ Len(pmOut[k].matches) = 1
    /\ \E k \in DOMAIN pmOut : pmOut[k].name = "weapon_attack"

\* The result of the last call as a fresh registry would give it
FreshResult ==
    IF pmCall.method = "extractPatterns"
    THEN extractPatterns(initializePatterns, pmText, pmCall.throwing).results
    ELSE IF pmCall.method = "getFirstMatch"
    THEN getFirstMatch(initializePatterns, pmText, pmCall.name).result
    ELSE hasPattern(initializePatterns, pmText, pmCall.name).result

\* The result of a call depends on its arguments alone
ResultFromArguments == pmCall # Null => pmOut = FreshResult

\* The registered patterns, their priorities and their flags are those of
\* construction; the matcher position is left out
SamePatterns ==
    /\ DOMAIN pmPatterns = DOMAIN initializePatterns
    /\ \A i \in DOMAIN pmPatterns :
          /\ pmPatterns[i].name = initializePatterns[i].name
          /\ pmPatterns[i].priority = initializePatterns[i].priority
          /\ pmPatterns[i].regex.global = initializePatterns[i].regex.global

\* C14 as stated: after any sequence of extractPatterns, getFirstMatch and
\* hasPattern calls the registry is as constructed, the state of every
\* matcher included, and each result depends on the call's arguments alone.
C14_RegistryUnchanged ==
    /\ pmPatterns = initializePatterns
    /\ ResultFromArguments

\* C14 amended: after any sequence of extractPatterns, getFirstMatch and
\* hasPattern calls the set of registered patterns and their priorities are
\* as constructed; getFirstMatch and hasPattern may leave the position of a
\* repeatable pattern's matcher advanced past the match, but every call
\* resets the position of each matcher it uses before matching, so each
\* result depends on the call's arguments alone.
C14_CallsIndependent ==
    /\ SamePatterns
    /\ \A i \in DOMAIN pmPatterns :
          pmPatterns[i].regex.lastIndex # 0 => pmPatterns[i].regex.global
    /\ ResultFromArguments

\* C14 witness: a call on a pattern the registry does not hold, made while
\* the matcher of a repeatable pattern is still advanced by an earlier call
C14_Witness ==
    /\ pmCall # Null /\ pmCall.method = "getFirstMatch"
    /\ pmCall.name = "unregistered" /\ pmOut = Null
    /\ \E i \in DOMAIN pmPatterns : pmPatterns[i].regex.lastIndex > 0

\* The activities of an item that are of the given type
ActivitiesOfType(item, type) ==
    { k \in DOMAIN item.system.activities : item.system.activities[k].type = type }

\* Every produced item has an attack activity exactly when the ability has
\* an attack and a save activity exactly when it has a save
AttackAndSaveActivities ==
    \A item \in Artifacts :
        /\ Cardinality(ActivitiesOfType(item, "attack")) =
              (IF parsed.attackType # "none" THEN 1 ELSE 0)
        /\ Cardinality(ActivitiesOfType(item, "save")) =
              (IF Len(parsed.saves) > 0 THEN 1 ELSE 0)
        /\ \A k \in DOMAIN item.system.activities :
              item.system.activities[k].type \in { "attack", "save" }

\* C15 as stated: an item has an attack activity if and only if the ability
\* has an attack, a save activity if and only if the ability has a save, and
\* every item carries one or two activities.
C15_OneOrTwoActivities ==
    /\ AttackAndSaveActivities
    /\ \A item \in Artifacts :
          Cardinality(DOMAIN item.system.activities) \in { 1, 2 }

\* C15 amended: an item has an attack activity if and only if the ability
\* has an attack and a save activity if and only if the ability has a save;
\* every item therefore carries zero, one or two activities, and none
\* exactly when the ability has neither an attack nor a save.
C15_UpToTwoActivities ==
    /\ AttackAndSaveActivities
    /\ \A item \in Artifacts :
          /\ Cardinality(DOMAIN item.system.activities) \in { 0, 1, 2 }
          /\ (DOMAIN item.system.activities = {}) <=>
                (parsed.attackType = "none" /\ Len(parsed.saves) = 0)

\* C15 witness: an enhanced result whose items have both activities
C15_Witness ==
    /\ Enhanced
    /\ parsed.attackType # "none" /\ Len(parsed.saves) > 0
    /\ \A item \in Artifacts : Cardinality(DOMAIN item.system.activities) = 2

\* The classification as stated, from the patterns matched in the text and
\* the damage list of the parsed ability
StatedType(t, ability) ==
    IF patternsHas(t, "weapon_attack") THEN "weapon_attack"
    ELSE IF patternsHas(t, "spell_attack") THEN "spell_attack"
    ELSE IF patternsHas(t, "save_dc") THEN "save_ability"
    ELSE IF \E i \in DOMAIN ability.damage : ability.damage[i].type = "healing"
         THEN "healing"
    ELSE IF ability.activation.type = "reaction" THEN "reaction"
    ELSE IF \A name \in { "activation_action", "activation_bonus",
                          "activation_reaction" } : ~patternsHas(t, name)
         THEN "passive"
    ELSE "utility"

\* C16: the classification is the first that applies of: weapon attack when
\* the weapon-attack pattern matched, spell attack when the spell-attack
\* pattern matched, save-based when a save-DC pattern matched, healing when
\* the damage entries are typed healing, reaction when a reaction activation
\* is present, passive when no activation pattern matched, utility.
C16_ClassificationOrder ==
    taOut # Null => taOut.type = StatedType(taText, taOut)

\* The positions in the text at which a phrase of the pattern starts
PhraseStarts(t, name) ==
    { clauseStart(t, c) + MatchOffset(name, c) :
        c \in { d \in t : PatternFacts(name, d) # << >> } }

\* The activation type as stated
StatedActivation(t) ==
    IF PhraseStarts(t, "activation_reaction") # {} THEN "reaction"
    ELSE IF \E at \in PhraseStarts(t, "activation_bonus") : at < 50 THEN "bonus"
    ELSE "action"

\* C17: the activation is a reaction when a reaction phrase stands anywhere
\* in the text; otherwise a bonus action when a bonus-action phrase starts
\* within the first 50 characters; otherwise an action, whether an action
\* phrase is present or not.  A bonus-action phrase at or beyond character
\* 50 never gives a bonus-action activation.
C17_ActivationResolution ==
    taOut # Null =>
        /\ taOut.activation.type = StatedActivation(taText)
        /\ (\A at \in PhraseStarts(taText, "activation_bonus") : at >= 50)
              => taOut.activation.type # "bonus"

\* C17 witness: a bonus-action phrase that starts at character 50 exactly,
\* without a reaction phrase, resolved as an action
C17_Witness ==
    /\ taOut # Null
    /\ PhraseStarts(taText, "activation_bonus") = { 50 }
    /\ PhraseStarts(taText, "activation_reaction") = {}
    /\ taOut.activation.type = "action"

\* A bonus-action phrase that starts at character 49 is resolved as a bonus
\* action
C17_WitnessBefore50 ==
    /\ taOut # Null
    /\ PhraseStarts(taText, "activation_bonus") = { 49 }
    /\ taOut.activation.type = "bonus"

\* The formulas of the matches of a damage pattern in the text
MatchedFormulas(t, name) ==
    { patternsGet(t, name)[i].formula : i \in DOMAIN patternsGet(t, name) }

\* The damage list is the de-duplicated union of the two formats
DamageDeduplicated(t, damage) ==
    /\ \A i, j \in DOMAIN damage :
          damage[i].formula = damage[j].formula => i = j
    /\ { damage[i].formula : i \in DOMAIN damage } =
          MatchedFormulas(t, "damage_with_average")
            \cup MatchedFormulas(t, "damage_simple")
    /\ \A i \in DOMAIN damage :
          damage[i].formula \in MatchedFormulas(t, "damage_with_average") =>
            \E k \in DOMAIN patternsGet(t, "damage_with_average") :
                /\ patternsGet(t, "damage_with_average")[k].formula = damage[i].formula
                /\ patternsGet(t, "damage_with_average")[k].type = damage[i].type

\* C18: the damage list is the union of the averaged-format and the
\* simple-format matches de-duplicated by formula: no two entries have the
\* same formula, every formula matched in either format appears once, and
\* for a formula matched in both formats the averaged-format entry is kept.
C18_DamageDeduplicated ==
    taOut # Null => DamageDeduplicated(taText, taOut.damage)

\* The closed vocabulary: the standard conditions and the homebrew ones
Vocabulary == { allConditions[i] : i \in DOMAIN allConditions }

\* The text has a phrase that applies a condition of the vocabulary
VocabularyPhrase(t) == \E c \in Vocabulary : condPattern(t, c)

\* The text has an advantage or a disadvantage phrase
AdvantagePhrase(t) ==
    patternsHas(t, "advantage") \/ patternsHas(t, "disadvantage")

\* C19 as stated: every entry of the condition list has a kind of the
\* closed vocabulary, and a text without a phrase applying a vocabulary
\* condition has an empty condition list.
C19_ClosedVocabulary ==
    taOut # Null =>
        /\ \A i \in DOMAIN taOut.conditions :
              taOut.conditions[i].type \in Vocabulary
        /\ ~VocabularyPhrase(taText) => taOut.conditions = << >>

\* C19 amended: every entry of the condition list has a kind of the closed
\* vocabulary or one of the two kinds advantage and disadvantage, and a
\* text with neither a phrase applying a vocabulary condition nor an
\* advantage or disadvantage phrase has an empty condition list.
C19_VocabularyOrAdvantage ==
    taOut # Null =>
        /\ \A i \in DOMAIN taOut.conditions :
              taOut.conditions[i].type \in Vocabulary \cup { "advantage", "disadvantage" }
        /\ (~VocabularyPhrase(taText) /\ ~AdvantagePhrase(taText))
              => taOut.conditions = << >>

\* C19 witness: a text with a phrase applying a condition outside the
\* vocabulary next to a vocabulary condition and an advantage phrase; the
\* list has the vocabulary entry and the advantage entry alone
C19_Witness ==
    /\ taOut # Null
    /\ { "conf", "prone", "adv" } \subseteq taText
    /\ Len(taOut.conditions) = 2
    /\ taOut.conditions[1].type = "prone"
    /\ taOut.conditions[2].type = "advantage"

\* A text whose only condition phrase is outside the vocabulary has an
\* empty condition list
C19_WitnessUnrecognized ==
    /\ taOut # Null /\ taText = { "conf" } /\ taOut.conditions = << >>

\* The recharge archetype of the last generateRechargeSystem call
Archetype == analyzeRechargeRequirements(rcText).type

\* The output has a non-empty item-state patch, a script and a hook
PatchScriptAndHook(out) ==
    /\ DOMAIN out.itemUpdates # {}
    /\ Len(out.macros) >= 1
    /\ Len(out.hooks) >= 1

\* C20 as stated: for each of the three recharge archetypes the output of
\* the recharge pass has a non-empty item-state patch, at least one script
\* and at least one hook.
C20_AllThreeForEveryArchetype ==
    (rcOut # Null /\ rcOut.hasRecharge) => PatchScriptAndHook(rcOut)

\* C20 amended: the output for a fixed-threshold dice recharge has a
\* non-empty item-state patch, two scripts (usage tracking and the recharge
\* roll) and one hook; the output for limited uses per rest has a non-empty
\* item-state patch and the usage-tracking script but no hook; the output
\* for a conditionally triggered recharge has two scripts (usage tracking
\* and the condition check) but an empty item-state patch and no hook.
C20_OutputPerArchetype ==
    (rcOut # Null /\ rcOut.hasRecharge) =>
        /\ Archetype = "standard" =>
              /\ DOMAIN rcOut.itemUpdates = { "system.recharge" }
              /\ rcOut.macros = << "Usage", "Recharge" >>
              /\ Len(rcOut.hooks) = 1
        /\ Archetype = "limited_use" =>
              /\ DOMAIN rcOut.itemUpdates = { "system.uses" }
              /\ rcOut.macros = << "Usage" >>
              /\ rcOut.hooks = << >>
        /\ Archetype = "conditional" =>
              /\ DOMAIN rcOut.itemUpdates = {}
              /\ rcOut.macros = << "Usage", "ConditionalRecharge" >>
              /\ rcOut.hooks = << >>

\* C20 witness: the output for limited uses per short rest, with its patch
\* and no hook
C20_Witness ==
    /\ rcOut # Null /\ rcOut.hasRecharge
    /\ Archetype = "limited_use"
    /\ rcOut.itemUpdates["system.uses"].per = "sr"
    /\ rcOut.hooks = << >>

\* The outputs for the dice recharge and for the conditional recharge
C20_WitnessStandard ==
    /\ rcOut # Null /\ rcOut.hasRecharge /\ Archetype = "standard"
    /\ PatchScriptAndHook(rcOut)

\* The output for the conditional recharge has an empty patch
C20_WitnessConditional ==
    /\ rcOut # Null /\ rcOut.hasRecharge /\ Archetype = "conditional"
    /\ rcOut.itemUpdates = << >>

-----------------------------------------------------------------------------
(* C21: end conditions of the recurring ongoing-effect scripts *)

\* The end condition extractEndCondition gave the effect holds on the actor
EndConditionMet(ongoing, target) ==
    CASE ongoing.endCondition = "unconscious" -> target.unconscious
      [] ongoing.endCondition = "full_hp" -> target.fullHp
      [] ongoing.endCondition = "parent_condition_ends" -> ~target.parentPresent
      [] OTHER -> FALSE

\* C21: whenever a generated recurring script runs on an actor on which the
\* end condition of its effect holds (the actor is unconscious, is at full
\* health, or has lost the parent condition the effect is linked to), the
\* script ends the effect, and does so before rolling and applying it: the
\* run goes straight to the deletion of the effect, it never applies the
\* damage or the healing, and when it is over the effect is deleted.
C21_EndConditionEndsEffect ==
    (ogRun # Null /\ EndConditionMet(ogRun.ongoing, ogRun.target))
        => /\ ~ogRun.outcome.applied
           /\ ogRun.outcome.pc \in { "deleting", "done" }
           /\ ogRun.outcome.pc = "done" => ogRun.outcome.ended

-----------------------------------------------------------------------------
(* C22: the Bear Hug scenario *)

\* What a step of a linked-effect chain does: the condition it applies, or
\* its action
ChainStep(st) == IF st.action = "apply_condition" THEN st.condition ELSE st.action

\* C22: a conversion of the Bear Hug text that applied the enhancement has
\* the recharge descriptor with minimum 4 and maximum 6, one linked-effect
\* chain whose steps are grappled, restrained and ongoing damage in this
\* order, and a final complexity tier of at least 3.
C22_BearHug ==
    (Enhanced /\ text = BearHugText) =>
        /\ systems.rechargeSystem.hasRecharge
        /\ systems.rechargeSystem.rechargeData.minRoll = 4
        /\ systems.rechargeSystem.rechargeData.maxRoll = 6
        /\ Len(systems.complexAnalysis.linkedEffects) = 1
        /\ LET chain == systems.complexAnalysis.linkedEffects[1].sequence
           IN [ i \in DOMAIN chain |-> ChainStep(chain[i]) ]
                  = << "grappled", "restrained", "ongoing_damage" >>
        /\ result.phase2Enhancement.complexity >= 3

C22_Witness == Enhanced /\ text = BearHugText

-----------------------------------------------------------------------------
(* C23: the Lightning Bolt scenario *)

\* The shape of the area of a parsed target; TargetData has the fields
\* value, type, width and units, and "none" stands for a target that holds
\* no shape
AreaShape(target) == IF "shape" \in DOMAIN target THEN target.shape ELSE "none"

\* The flag at the path is set to true
FlagTrue(flags, path) == path \in DOMAIN flags /\ flags[path] = "true"

\* C23: a conversion of the Lightning Bolt text yields a save with ability
\* dex and DC 15, the half-damage-on-save flag set to true, and an area
\* whose shape is line and whose width is 60.
C23_LightningBolt ==
    (Enhanced /\ text = LightningBoltText) =>
        /\ result.parsedAbility.saves = << [ability |-> "dex", dc |-> 15, scaling |-> "flat"] >>
        /\ FlagTrue(result.foundryItem.flags, << "midi-qol", "halfdam" >>)
        /\ AreaShape(result.parsedAbility.target) = "line"
        /\ result.parsedAbility.target.width = 60

-----------------------------------------------------------------------------
(* C24: the simple melee attack scenario *)

\* C24: a conversion of the text "Melee Weapon Attack: +5 to hit, reach
\* 5 ft., one target. Hit: 8 (1d8 + 4) slashing damage." yields a weapon
\* item, the attack bonus 5 (parsed, and flat on the attack activity),
\* exactly the one damage entry with formula 1d8+4 and type slashing, and
\* complexity tier 1: the tier of the parsed ability and of the base
\* automation, and the final tier when no behaviour script is generated.
C24_SimpleAttack ==
    (Enhanced /\ text = { "mwak" }) =>
        /\ result.foundryItem.type = "weapon"
        /\ result.parsedAbility.attackBonus = 5
        /\ result.foundryItem.system.activities["dnd5eactivity000"].attack
              = [ bonus |-> "5", flat |-> TRUE ]
        /\ result.parsedAbility.damage = << [formula |-> "1d8+4", type |-> "slashing"] >>
        /\ result.parsedAbility.complexity = 1
        /\ result.automation.complexity = 1
        /\ (result.phase2Enhancement.macros = << >>
              => result.phase2Enhancement.complexity = 1)

C24_Witness ==
    /\ Enhanced /\ text = { "mwak" }
    /\ result.phase2Enhancement.macros = << >>
    /\ result.phase2Enhancement.complexity = 1

-----------------------------------------------------------------------------
(* C25: the damage-taken trigger of Hulking Rush *)

\* C25: a conversion of the Hulking Rush text, "When the owlbear takes
\* damage, they can ..." without the word 'reaction', has the reaction
\* integration applied: the flags of the final item hold
\* gambits-premades.isReaction set to true.
C25_HulkingRushIsReaction ==
    (Enhanced /\ text = HulkingRushText) =>
        FlagTrue(result.foundryItem.flags, << "gambits-premades", "isReaction" >>)

-----------------------------------------------------------------------------
(* C26: two conversions of one text *)

\* The second of two calls on a text has returned
SecondCallDone == pc = "done" /\ firstResult # Null

\* Both calls met the same conditions: both failed in the base conversion,
\* or both were enhanced and the template pass gave both the same scripts
SameConditions ==
    /\ firstResult.success = result.success
    /\ result.success =>
          /\ firstResult.phase2Enhancement.applied
          /\ result.phase2Enhancement.applied
          /\ firstResult.phase2Enhancement.macros = result.phase2Enhancement.macros

\* An effect list with each identifier replaced by its position among the
\* identifiers the call drew
EraseIds(effects) == [ i \in DOMAIN effects |-> [ effects[i] EXCEPT !._id = @[2] ] ]

\* A flag bundle without its two timestamps
EraseStamps(flags) ==
    [ path \in DOMAIN flags \ { << "automancy", "generatedAt" >>,
                                 << "automancy", "enhancementTimestamp" >> }
        |-> flags[path] ]

\* An item with its identifiers and timestamps erased
EraseItem(item) ==
    [ item EXCEPT
        !._id = @[2],
        !.effects = EraseIds(@),
        !.flags = EraseStamps(@),
        !.system = [ @ EXCEPT !.activities =
                        [ k \in DOMAIN @ |-> [ @[k] EXCEPT !.effects = EraseIds(@) ] ] ] ]

\* A result with its identifiers and timestamps erased
EraseResult(r) ==
    IF ~r.success THEN r
    ELSE [ r EXCEPT
            !.automation = [ @ EXCEPT !.effects = EraseIds(@),
                                      !.flags = EraseStamps(@),
                                      !.item = EraseItem(@) ],
            !.foundryItem = EraseItem(@),
            !.phase2Enhancement =
                IF @.applied
                THEN [ @ EXCEPT !.professionalFlags = EraseStamps(@),
                                !.additionalEffects = EraseIds(@) ]
                ELSE @ ]

\* C26 as stated: two conversion calls on the same text, made under the same
\* conditions, return identical artifacts (semantic model, item, effects
\* with their identifiers, flags, scripts, complexity, quality score).
C26_SameArtifacts ==
    (SecondCallDone /\ SameConditions) => result = firstResult

\* The reading a timestamp flag holds (0 when the bundle has no such flag)
StampOf(flags, key) ==
    IF << "automancy", key >> \notin DOMAIN flags THEN 0
    ELSE LET held == { n \in 1 .. MaxClock :
                         flags[<< "automancy", key >>] = toISOString(n) }
         IN IF held = {} THEN 0 ELSE CHOOSE n \in held : TRUE

\* The identifiers an item holds: its own, its effects' and the effect
\* references of its activities
IdsOfItem(item) ==
    { item._id }
    \cup { item.effects[i]._id : i \in DOMAIN item.effects }
    \cup UNION { { item.system.activities[k].effects[j]._id :
                     j \in DOMAIN item.system.activities[k].effects } :
                 k \in DOMAIN item.system.activities }

\* The identifiers of a result
IdsOfResult(r) ==
    IdsOfItem(r.foundryItem) \cup IdsOfItem(r.automation.item)
    \cup { r.automation.effects[i]._id : i \in DOMAIN r.automation.effects }
    \cup IF r.phase2Enhancement.applied
         THEN { r.phase2Enhancement.additionalEffects[i]._id :
                  i \in DOMAIN r.phase2Enhancement.additionalEffects }
         ELSE {}

\* The four clock readings two enhanced results hold are in the order in
\* which the calls took them, and the flag pass reports the reading the
\* item holds
StampsInOrder(first, second) ==
    LET g1 == StampOf(first.foundryItem.flags, "generatedAt")
        e1 == StampOf(first.foundryItem.flags, "enhancementTimestamp")
        g2 == StampOf(second.foundryItem.flags, "generatedAt")
        e2 == StampOf(second.foundryItem.flags, "enhancementTimestamp")
    IN /\ 1 <= g1 /\ g1 <= e1 /\ e1 <= g2 /\ g2 <= e2
       /\ StampOf(second.phase2Enhancement.professionalFlags, "generatedAt") = g2

\* C26 amended: two conversion calls on the same text, made under the same
\* conditions, return artifacts that are identical once each identifier is
\* replaced by its position among the identifiers its call drew and the two
\* timestamps are left out of the flags; every identifier of the second
\* result is a draw the second call made from Math.random; and the two
\* timestamp flags hold readings of the clock taken by the call, generatedAt
\* before enhancementTimestamp, neither earlier than the first call's.
C26_SameUpToIdsAndStamps ==
    (SecondCallDone /\ SameConditions) =>
        /\ EraseResult(result) = EraseResult(firstResult)
        /\ result.success =>
              /\ \A id \in IdsOfResult(result) : id[1] = seed
              /\ StampsInOrder(firstResult, result)

\* Two enhanced conversions of one text whose identifiers differ, the second
\* with two timestamps that differ from each other
C26_Witness ==
    /\ SecondCallDone /\ SameConditions
    /\ result.success /\ result.foundryItem.effects # << >>
    /\ IdsOfResult(result) \cap IdsOfResult(firstResult) = {}
    /\ StampOf(result.foundryItem.flags, "generatedAt")
         < StampOf(result.foundryItem.flags, "enhancementTimestamp")
    /\ EraseResult(result) = EraseResult(firstResult)

-----------------------------------------------------------------------------
(* C27: one reaction per actor and round *)

\* The runs that executed the reaction of actor a in round k
ExecutedInRound(a, k) ==
    { r \in Runs : /\ rxRuns[r].pc = "executed"
                   /\ rxRuns[r].actor = a
                   /\ rxRuns[r].round = k }

\* C27: with the generated reaction scripts the reaction of an actor is
\* consumed at most once in a round, and while the used-this-round flag of
\* an actor is set every trigger for it is rejected, its validation fails
\* and its queued reactions are passed over.
C27_OncePerRound ==
    /\ \A a \in Actors, k \in 1 .. MaxRounds : Cardinality(ExecutedInRound(a, k)) <= 1
    /\ \A r \in Runs : rxRuns[r].seen => rxRuns[r].pc = "rejected"
    /\ rxValid # Null => (rxValid.used => ~rxValid.valid)
    /\ rxQueueOut # Null => ~rxQueueOut.used

-----------------------------------------------------------------------------
(* C28: the recharge cycle of the generated scripts *)

\* C28: with the generated scripts of a fixed-threshold recharge ability the
\* item starts charged, each use leaves it not charged, the recharge roll is
\* made only while it is not charged, and after a roll it is charged exactly
\* when the d6 is within the parsed range [minRoll, maxRoll].
C28_RechargeCycle ==
    rrItem # Null =>
        LET data == systems.rechargeSystem.rechargeData
        IN /\ rrLast = Null => isCharged(rrItem)
           /\ (rrLast # Null /\ rrLast.macro = "Usage") => ~isCharged(rrItem)
           /\ (rrLast # Null /\ rrLast.macro = "Recharge" /\ rrLast.roll > 0) =>
                 /\ ~rrLast.before
                 /\ isCharged(rrItem) <=> rrLast.roll \in data.minRoll .. data.maxRoll
           /\ (rrLast # Null /\ rrLast.macro = "Recharge" /\ rrLast.roll = 0) =>
                 rrLast.before

-----------------------------------------------------------------------------
(* C30: where the recharge patch lands *)

\* C30: when the recharge pass finds a fixed recharge threshold, the merged
\* item holds the patch where the generated scripts read and write it: its
\* system.recharge is the parsed threshold with charged true.
C30_RechargePatchLocation ==
    (/\ Enhanced
     /\ systems.rechargeSystem.hasRecharge
     /\ systems.rechargeSystem.rechargeData.type = "standard") =>
        /\ "recharge" \in DOMAIN result.foundryItem.system
        /\ result.foundryItem.system["recharge"]
              = [ value |-> systems.rechargeSystem.rechargeData.minRoll, charged |-> TRUE ]

-----------------------------------------------------------------------------
(* C29: the effects reported as added *)

\* C29: after a successful enhancement every effect of the result's
\* additional-effect list is an effect of the final item.
C29_AdditionalEffectsPresent ==
    Enhanced =>
        Range(result.phase2Enhancement.additionalEffects)
            \subseteq Range(result.foundryItem.effects)

=============================================================================
